---- MODULE Spec2Model ----
(***************************************************************************)
(* Node graph of the Arctan VFS (src/c/graph.c): path traversal with       *)
(* on-demand node creation, link resolution and node deletion, run by      *)
(* kernel threads that share the graph.                                    *)
(*                                                                         *)
(* A C string is a sequence of one-character strings; a char pointer into  *)
(* it is a 1-based index, Len+1 pointing at the terminating NUL.  A node   *)
(* pointer is a node id, NULL being 0.  A freed node keeps its last        *)
(* contents (alloc = FALSE), as freed memory does until it is reused.      *)
(***************************************************************************)
EXTENDS Integers, Sequences, FiniteSets, TLC

VARIABLES nodes, lock, th, owned, drv_log, ops

vars == <<nodes, lock, th, owned, drv_log, ops>>

(* ---------------------------------------------------------------------- *)
(* Program constants                                                      *)
(* ---------------------------------------------------------------------- *)
NULL == 0
ARC_VFS_NULL == 0
ARC_VFS_N_FILE == 1
ARC_VFS_N_DIR == 2
ARC_VFS_N_MOUNT == 3
ARC_VFS_N_LINK == 5
\* The address of the static vfs_root.
Root == 1
\* The hop limit the specification names; graph.c has no such constant.
MAX_LINK_HOPS == 40

(* ---------------------------------------------------------------------- *)
(* Bounds of the model                                                    *)
(* ---------------------------------------------------------------------- *)
\* Node records the allocator can hand out (the root included).
MaxNodes == 4
\* Calls a behaviour makes in total.
MaxOps == 2
\* Link hops one traversal is followed for: in general, and where the hop limit
\* is looked at.
MaxHops == 3
HopCap == 41
\* Calls two threads make in total.
MaxConcOps == 3
\* Calls one caller makes on a graph with a mount.
MaxMountOps == 3

Nodes == 1..MaxNodes
Threads == {1, 2}
NoThread == 0
NUL == "NUL"
NoResource == "none"

(* ---------------------------------------------------------------------- *)
(* C strings                                                              *)
(* ---------------------------------------------------------------------- *)
CharAt(s, p) == IF p \in 1..Len(s) THEN s[p] ELSE NUL

Suffix(s, p) == IF p \in 1..Len(s) THEN SubSeq(s, p, Len(s)) ELSE << >>

RECURSIVE strncmp0(_, _, _, _, _)
\* strncmp(s + p, t + q, n) == 0
strncmp0(s, p, t, q, n) ==
    IF n = 0 THEN TRUE
    ELSE IF CharAt(s, p) # CharAt(t, q) THEN FALSE
    ELSE IF CharAt(s, p) = NUL THEN TRUE
    ELSE strncmp0(s, p + 1, t, q + 1, n - 1)

max(a, b) == IF a > b THEN a ELSE b

MASKED_READ(flags, bit) == (flags \div (2 ^ bit)) % 2

RECURSIVE ScanComponent(_, _)
\* while (*ret != 0 && *ret != '/') ret++;
ScanComponent(s, r) ==
    IF CharAt(s, r) # NUL /\ CharAt(s, r) # "/" THEN ScanComponent(s, r + 1) ELSE r

\* The pointer vfs_path_get_next_component returns for path s + p (NULL at the end
\* of the string).
vfs_path_get_next_component(s, p) ==
    IF CharAt(s, p) = NUL THEN NULL
    ELSE ScanComponent(s, IF CharAt(s, p) = "/" THEN p + 1 ELSE p)

\* What the call leaves in *is_last: set to 1 when the component ends the string,
\* otherwise left as it was.
IsLastAfter(s, p, is_last) ==
    LET r == vfs_path_get_next_component(s, p)
    IN IF r # NULL /\ CharAt(s, r) = NUL THEN 1 ELSE is_last

(* ---------------------------------------------------------------------- *)
(* Nodes                                                                  *)
(* ---------------------------------------------------------------------- *)
\* memset(node, 0, sizeof(*node)); `used` records that the address was handed out
\* before, `body` is the content the node's resource holds.
ZeroNode ==
    [alloc |-> FALSE, used |-> FALSE, type |-> ARC_VFS_NULL, name |-> << >>,
     parent |-> NULL, children |-> NULL, next |-> NULL, prev |-> NULL,
     link |-> NULL, mount |-> NULL, resource |-> NoResource, ref_count |-> 0,
     st_size |-> 0, body |-> << >>]

\* ARC_ATOMIC_INC / ARC_ATOMIC_DEC on the uint64_t ref_count.  A value is kept as
\* its representative modulo 2^64 nearest to zero, so -1 stands for 2^64 - 1.
ARC_ATOMIC_INC(ns, n) == [ns EXCEPT ![n].ref_count = @ + 1]

ARC_ATOMIC_DEC(ns, n) == [ns EXCEPT ![n].ref_count = @ - 1]

\* The test of the counter left out: no node counts as in use.
RefPositiveNever(x) == FALSE

\* node->ref_count > 0 on the unsigned counter.
RefPositive(x) == x # 0

\* A scan that matches no child.
FindChildNone(ns, c, s, p, n, fuel) == NULL

RECURSIVE FindChild(_, _, _, _, _, _)
\* The scan of the children list: the first child whose name equals the
\* component of length n at s + p, NULL when there is none.
FindChild(ns, c, s, p, n, fuel) ==
    IF c = NULL \/ fuel = 0 THEN NULL
    ELSE IF strncmp0(s, p, ns[c].name, 1, max(Len(ns[c].name), n)) THEN c
    ELSE FindChild(ns, ns[c].next, s, p, n, fuel - 1)

(* ---------------------------------------------------------------------- *)
(* Node creation and the materialization callbacks                        *)
(* ---------------------------------------------------------------------- *)
\* struct ARC_VFSNodeInfo as far as the graph reads it: the node type and, through
\* driver_arg, the content the new resource starts with.
NodeInfo(type, body) == [type |-> type, body |-> body]

\* local_info of callback_vfs_create_filepath.
local_info == NodeInfo(ARC_VFS_N_DIR, << >>)

Min(S) == CHOOSE x \in S : \A y \in S : x <= y

\* The addresses alloc(sizeof(*node)) can return: a block never handed out, or
\* one that was freed.  None left: alloc returns NULL.
AllocAddrs(ns) ==
    LET fresh == {n \in Nodes : ~ns[n].used}
        freed == {n \in Nodes : ns[n].used /\ ~ns[n].alloc}
    IN freed \cup (IF fresh = {} THEN {} ELSE {Min(fresh)})

\* init_resource(info->driver_index, info->driver_arg).
init_resource(mount) == IF mount = NULL THEN "buffer" ELSE "fs"

\* vfs_create_node with the node placed at address k: the graph afterwards.
\* The caller holds parent->branch_lock.
vfs_create_node(ns, parent, name, info, k) ==
    LET head == ns[parent].children
        node == [ZeroNode EXCEPT
                    !.alloc = TRUE, !.used = TRUE,
                    !.type = info.type,
                    !.mount = IF ns[parent].type = ARC_VFS_N_MOUNT
                              THEN parent ELSE ns[parent].mount,
                    !.resource = init_resource(IF ns[parent].type = ARC_VFS_N_MOUNT
                                               THEN parent ELSE ns[parent].mount),
                    !.name = name,
                    !.parent = parent,
                    !.next = head,
                    !.st_size = Len(info.body),
                    !.body = info.body]
        ns1 == [ns EXCEPT ![k] = node]
        ns2 == IF head # NULL /\ head # k
               THEN [ns1 EXCEPT ![head].prev = k] ELSE ns1
    IN [ns2 EXCEPT ![parent].children = k]

\* A vfs_create_node that returns NULL for a NULL type after it has linked the
\* node in.
CreateNodeResultsHalfBuilt(ns, log, parent, name, info) ==
    IF AllocAddrs(ns) = {}
    THEN {[ns |-> ns, log |-> log, next |-> NULL, fault |-> FALSE]}
    ELSE {[ns |-> vfs_create_node(ns, parent, name, info, k), log |-> log,
           next |-> IF info.type = ARC_VFS_NULL THEN NULL ELSE k,
           fault |-> FALSE] : k \in AllocAddrs(ns)}

\* Every result vfs_create_node can have: NULL for a NULL type or a failed
\* allocation, otherwise the new node at one of the allocator's addresses.
CreateNodeResults(ns, log, parent, name, info) ==
    IF info.type = ARC_VFS_NULL \/ AllocAddrs(ns) = {}
    THEN {[ns |-> ns, log |-> log, next |-> NULL, fault |-> FALSE]}
    ELSE {[ns |-> vfs_create_node(ns, parent, name, info, k), log |-> log,
           next |-> k, fault |-> FALSE] : k \in AllocAddrs(ns)}

\* The mount a callback works under.
CallbackMount(ns, node) ==
    IF ns[node].type = ARC_VFS_N_MOUNT THEN node ELSE ns[node].mount

\* The path a callback hands to the driver: the component when the parent has a
\* resource, otherwise the path from the mount's first component on.
UsePath(ns, r) ==
    IF ns[r.node].resource # NoResource
    THEN SubSeq(r.filepath, r.comp_base, r.comp_base + r.comp_len - 1)
    ELSE SubSeq(r.filepath, r.mount_path, r.comp_base + r.comp_len - 1)

\* strndup(args->mount_path, ...) with mount_path NULL.
UsePathFaults(ns, r) ==
    ns[r.node].resource = NoResource /\ r.mount_path = NULL

\* The results of the driver's create: 0 or an error.
DriverCreateResults == {0, -1}

\* callback_vfs_create_filepath(args): every outcome, as the graph, the driver log
\* and the returned node.
callback_vfs_create_filepath(ns, log, r) ==
    LET mount == CallbackMount(ns, r.node)
        info == IF CharAt(r.filepath, r.comp_base + r.comp_len) # NUL
                THEN local_info ELSE r.info
        name == SubSeq(r.filepath, r.comp_base, r.comp_base + r.comp_len - 1)
    IN IF mount = NULL
       THEN CreateNodeResults(ns, log, r.node, name, info)
       ELSE IF UsePathFaults(ns, r)
       THEN {[ns |-> ns, log |-> log, next |-> NULL, fault |-> TRUE]}
       ELSE LET log1 == Append(log, [op |-> "create", path |-> UsePath(ns, r),
                                     type |-> info.type])
            IN UNION {IF rc # 0
                      THEN {[ns |-> ns, log |-> log1, next |-> NULL, fault |-> FALSE]}
                      ELSE CreateNodeResults(ns, log1, r.node, name, info)
                      : rc \in DriverCreateResults}

\* What the driver's stat can answer for a path: an error, or the type and the
\* content of the object.
LinkBodies == {<<"a">>, <<"x">>}

StatResults ==
    {[ok |-> FALSE, type |-> ARC_VFS_NULL, body |-> << >>]}
    \cup {[ok |-> TRUE, type |-> ty, body |-> << >>] :
            ty \in {ARC_VFS_N_DIR, ARC_VFS_N_FILE, ARC_VFS_NULL}}
    \cup {[ok |-> TRUE, type |-> ARC_VFS_N_LINK, body |-> b] : b \in LinkBodies}

\* callback_vfs_load_filepath(args): every outcome.
callback_vfs_load_filepath(ns, log, r) ==
    LET mount == CallbackMount(ns, r.node)
        name == SubSeq(r.filepath, r.comp_base, r.comp_base + r.comp_len - 1)
    IN IF mount = NULL
       THEN {[ns |-> ns, log |-> log, next |-> NULL, fault |-> FALSE]}
       ELSE IF UsePathFaults(ns, r)
       THEN {[ns |-> ns, log |-> log, next |-> NULL, fault |-> TRUE]}
       ELSE LET log1 == Append(log, [op |-> "stat", path |-> UsePath(ns, r),
                                     type |-> ARC_VFS_NULL])
            IN UNION {IF ~st.ok
                      THEN {[ns |-> ns, log |-> log1, next |-> NULL, fault |-> FALSE]}
                      ELSE CreateNodeResults(ns, log1, r.node, name,
                                             NodeInfo(st.type, st.body))
                      : st \in StatResults}

\* The callback internal_vfs_traverse was given, applied on a miss.
Callback(ns, log, r) ==
    IF r.op = "create" THEN callback_vfs_create_filepath(ns, log, r)
    ELSE IF r.op = "load" THEN callback_vfs_load_filepath(ns, log, r)
    ELSE {[ns |-> ns, log |-> log, next |-> NULL, fault |-> FALSE]}

(* ---------------------------------------------------------------------- *)
(* Threads                                                                *)
(* ---------------------------------------------------------------------- *)
NoInfo == NodeInfo(ARC_VFS_NULL, << >>)

NoNodes == [n \in Nodes |-> ZeroNode]

\* A thread outside any call.  The fields are the parameters and locals of the
\* function it runs; pre and pre_log keep the graph and the length of the driver
\* log as they were when the call was made, seq the number of the call and alone
\* that no other thread was in a call then, got the call that gave the caller its
\* latest reference to a node, miss and broken record that the walk
\* left its loop at graph.c:399-409 (broken: after a link hop), stack holds the
\* frames of internal_vfs_recursive_delete.
IdleThread ==
    [pc |-> "idle", op |-> "none", filepath |-> << >>, start |-> NULL, flags |-> 0,
     path |-> << >>, has_end |-> FALSE, info |-> NoInfo, node |-> NULL, next |-> NULL,
     comp_base |-> 0, comp_end |-> NULL, comp_len |-> 0, is_last |-> 0,
     mount_path |-> NULL, lnk_counter |-> 0, org_node |-> NULL, end |-> NULL,
     ret |-> << >>, miss |-> FALSE, broken |-> FALSE, parent |-> NULL, rc |-> 0, caller |-> "none",
     stack |-> << >>, arg |-> NULL, pre |-> NoNodes, pre_log |-> 0, seq |-> 0,
     alone |-> FALSE, got |-> [n \in Nodes |-> "none"]]

\* init_vfs: the root is a directory without parent, mount or resource, and holds
\* one reference for ever.
init_vfs ==
    [NoNodes EXCEPT ![Root] = [ZeroNode EXCEPT !.alloc = TRUE, !.used = TRUE,
                                              !.type = ARC_VFS_N_DIR,
                                              !.ref_count = 1]]

Init ==
    /\ nodes = init_vfs
    /\ lock = [n \in Nodes |-> NoThread]
    /\ th = [t \in Threads |-> IdleThread]
    /\ owned = [t \in Threads |-> [n \in Nodes |-> 0]]
    /\ drv_log = << >>
    /\ ops = 0

\* No thread but t is in a call.
Alone(t) == \A u \in Threads \ {t} : th[u].pc = "idle"

\* The nodes a caller can name: the root and the nodes it holds a reference to.
Held(t) == {Root} \cup {n \in Nodes : owned[t][n] > 0}

\* The first component of a walk (graph.c:350-361).
FirstComponent(r, filepath, start) ==
    LET base == IF CharAt(filepath, 1) = "/" THEN 2 ELSE 1
        cend == vfs_path_get_next_component(filepath, base)
    IN [r EXCEPT !.node = start, !.next = NULL,
                 !.is_last = IsLastAfter(filepath, base, 0),
                 !.comp_base = base, !.comp_end = cend,
                 !.comp_len = IF cend = NULL THEN 0 ELSE cend - base,
                 !.mount_path = NULL]

\* The entry of internal_vfs_traverse with its locals set up.
EnterTraverse(t, op, filepath, start, flags, has_end, info) ==
    /\ th[t].pc = "idle"
    /\ ops' = ops + 1
    /\ th' = [th EXCEPT ![t] =
                [IdleThread EXCEPT !.pc = "re_iter", !.op = op, !.filepath = filepath,
                                   !.path = filepath,
                                   !.start = start, !.flags = flags,
                                   !.has_end = has_end, !.info = info,
                                   !.pre = nodes, !.pre_log = Len(drv_log),
                                   !.seq = ops + 1, !.alone = Alone(t),
                                   !.got = th[t].got]]
    /\ UNCHANGED <<nodes, lock, owned, drv_log>>

\* vfs_traverse_filepath: no callback, the flags as given.
vfs_traverse_filepath(t, filepath, start, flags, has_end) ==
    EnterTraverse(t, "traverse", filepath, start, flags, has_end, NoInfo)

\* flags | 1
WithResolveLinks(flags) == IF MASKED_READ(flags, 0) = 1 THEN flags ELSE flags + 1

\* vfs_load_filepath: the load callback, links resolved.
vfs_load_filepath(t, filepath, start, flags, has_end) ==
    EnterTraverse(t, "load", filepath, start, WithResolveLinks(flags), has_end, NoInfo)

\* vfs_create_filepath: the create callback, links resolved.
vfs_create_filepath(t, filepath, start, flags, info, has_end) ==
    EnterTraverse(t, "create", filepath, start, WithResolveLinks(flags), has_end, info)

\* re_iter: take a reference on the start node and find the first component.
TraverseReIter(t) ==
    LET r == th[t]
    IN /\ r.pc = "re_iter"
       /\ IF r.start = NULL
          THEN /\ th' = [th EXCEPT ![t] = [r EXCEPT !.pc = "ret", !.ret = r.filepath]]
               /\ UNCHANGED nodes
          ELSE /\ nodes' = ARC_ATOMIC_INC(nodes, r.start)
               /\ th' = [th EXCEPT ![t] =
                            [FirstComponent(r, r.filepath, r.start) EXCEPT !.pc = "loop"]]
       /\ UNCHANGED <<lock, owned, drv_log, ops>>

\* strncmp(comp_base, "..", comp_len) == 0
IsDotDot(r) == strncmp0(r.filepath, r.comp_base, <<".", ".">>, 1, r.comp_len)

\* strncmp(comp_base, ".", comp_len) == 0
IsDot(r) == strncmp0(r.filepath, r.comp_base, <<".">>, 1, r.comp_len)

\* The head of the while loop (graph.c:363-378): leave the loop, step through a
\* dot component, or go on to the lookup.
TraverseLoop(t) ==
    LET r == th[t]
        r1 == IF nodes[r.node].type = ARC_VFS_N_MOUNT
              THEN [r EXCEPT !.mount_path = r.comp_base] ELSE r
    IN /\ r.pc = "loop"
       /\ th' = [th EXCEPT ![t] =
                    IF r.comp_end = NULL THEN [r EXCEPT !.pc = "links"]
                    ELSE IF MASKED_READ(r.flags, 1) = 1 /\ r.is_last = 1
                    THEN [r EXCEPT !.pc = "links"]
                    ELSE IF IsDotDot(r)
                    THEN [r1 EXCEPT !.next = nodes[r.node].parent, !.pc = "next_iter"]
                    ELSE IF IsDot(r)
                    THEN [r1 EXCEPT !.next = r.node, !.pc = "next_iter"]
                    ELSE [r1 EXCEPT !.pc = "lock"]]
       /\ UNCHANGED <<nodes, lock, owned, drv_log, ops>>

\* A branch_lock that is always found free.
LockFreeAlways(lk, n) == TRUE

\* mutex_lock returns once the lock is free.
LockFree(lk, n) == lk[n] = NoThread

\* An unlock that leaves the lock held.
mutex_unlock_skipped(lk, n) == lk

\* mutex_unlock(&n->branch_lock)
mutex_unlock(lk, n) == [lk EXCEPT ![n] = NoThread]

\* mutex_lock(&node->branch_lock)
TraverseLock(t) ==
    LET r == th[t]
    IN /\ r.pc = "lock"
       /\ LockFree(lock, r.node)
       /\ lock' = [lock EXCEPT ![r.node] = t]
       /\ th' = [th EXCEPT ![t] = [r EXCEPT !.pc = "scan"]]
       /\ UNCHANGED <<nodes, owned, drv_log, ops>>

\* The lock a new node's memory starts with: memset clears it.
LockAfter(lk, ns, ns1) ==
    [n \in Nodes |-> IF ns1[n].alloc /\ ~ns[n].alloc THEN NoThread ELSE lk[n]]

\* The scan of the children under the lock (graph.c:382-391).
TraverseScan(t) ==
    LET r == th[t]
    IN /\ r.pc = "scan"
       /\ th' = [th EXCEPT ![t] =
                    [r EXCEPT !.next = FindChild(nodes, nodes[r.node].children,
                                                 r.filepath, r.comp_base, r.comp_len,
                                                 MaxNodes + 1),
                              !.pc = "unlock"]]
       /\ UNCHANGED <<nodes, lock, owned, drv_log, ops>>

\* graph.c:393-397: the callback on a miss, then the unlock.
TraverseUnlock(t) ==
    LET r == th[t]
    IN /\ r.pc = "unlock"
       /\ \E out \in (IF r.next # NULL
                      THEN {[ns |-> nodes, log |-> drv_log, next |-> r.next,
                             fault |-> FALSE]}
                      ELSE Callback(nodes, drv_log, r)) :
            /\ nodes' = out.ns
            /\ drv_log' = out.log
            /\ IF out.fault
               THEN /\ th' = [th EXCEPT ![t] = [r EXCEPT !.pc = "fault"]]
                    /\ lock' = LockAfter(lock, nodes, out.ns)
               ELSE /\ th' = [th EXCEPT ![t] = [r EXCEPT !.next = out.next,
                                                         !.pc = "check"]]
                    /\ lock' = mutex_unlock(LockAfter(lock, nodes, out.ns), r.node)
       /\ UNCHANGED <<owned, ops>>

\* next_iter with the reference on the node left behind kept.
NextIterKeepRef(ns, r) ==
    LET s == r.filepath
        base == IF CharAt(s, r.comp_end) = "/" THEN r.comp_end + 1 ELSE r.comp_end
        cend == vfs_path_get_next_component(s, base)
    IN [ns |-> IF r.next # r.node THEN ARC_ATOMIC_INC(ns, r.next) ELSE ns,
        r |-> [r EXCEPT !.node = r.next, !.next = NULL,
                        !.comp_base = base, !.comp_end = cend,
                        !.comp_len = IF cend = NULL THEN 0 ELSE cend - base,
                        !.is_last = IsLastAfter(s, base, r.is_last),
                        !.pc = "loop"]]

\* next_iter (graph.c:411-427): move the reference from node to next and take the
\* next component.
NextIter(ns, r) ==
    LET s == r.filepath
        base == IF CharAt(s, r.comp_end) = "/" THEN r.comp_end + 1 ELSE r.comp_end
        cend == vfs_path_get_next_component(s, base)
        moved == r.next # r.node
    IN [ns |-> IF moved THEN ARC_ATOMIC_DEC(ARC_ATOMIC_INC(ns, r.next), r.node) ELSE ns,
        r |-> [r EXCEPT !.node = r.next, !.next = NULL,
                        !.comp_base = base, !.comp_end = cend,
                        !.comp_len = IF cend = NULL THEN 0 ELSE cend - base,
                        !.is_last = IsLastAfter(s, base, r.is_last),
                        !.pc = "loop"]]

\* After the unlock (graph.c:399-409): no next node ends the walk, and after a
\* link hop it also gives up the reference; otherwise next_iter.
TraverseCheck(t) ==
    LET r == th[t]
    IN /\ r.pc = "check"
       /\ IF r.next = NULL
          THEN IF r.lnk_counter > 0
               THEN /\ nodes' = ARC_ATOMIC_DEC(nodes, r.node)
                    /\ th' = [th EXCEPT ![t] = [r EXCEPT !.node = NULL, !.miss = TRUE,
                                                         !.broken = TRUE,
                                                         !.pc = "links"]]
               ELSE /\ th' = [th EXCEPT ![t] = [r EXCEPT !.miss = TRUE,
                                                         !.pc = "links"]]
                    /\ UNCHANGED nodes
          ELSE /\ nodes' = NextIter(nodes, r).ns
               /\ th' = [th EXCEPT ![t] = NextIter(nodes, r).r]
       /\ UNCHANGED <<lock, owned, drv_log, ops>>

\* next_iter reached by goto from a dot component: next is not checked for NULL,
\* and next->ref_count on a NULL next is a NULL dereference.
TraverseNextIter(t) ==
    LET r == th[t]
    IN /\ r.pc = "next_iter"
       /\ IF r.next = NULL
          THEN /\ th' = [th EXCEPT ![t] = [r EXCEPT !.pc = "fault"]]
               /\ UNCHANGED nodes
          ELSE /\ nodes' = NextIter(nodes, r).ns
               /\ th' = [th EXCEPT ![t] = NextIter(nodes, r).r]
       /\ UNCHANGED <<lock, owned, drv_log, ops>>

(* ---------------------------------------------------------------------- *)
(* Link resolution and the end of the traversal                           *)
(* ---------------------------------------------------------------------- *)
\* What the driver's read can return for a request of size bytes: all of them, or
\* fewer (an error).
DriverReadResults(size) == {size, 0}

\* vfs_read on the fake descriptor of vfs_read_link: -1 without a resource,
\* otherwise what the driver returns.
vfs_read_results(ns, link) ==
    IF ns[link].resource = NoResource THEN {-1}
    ELSE DriverReadResults(ns[link].st_size)

\* vfs_read_link(link): the paths it can return, NULL being [ok |-> FALSE].
vfs_read_link(ns, link) ==
    LET none == [ok |-> FALSE, path |-> << >>]
    IN IF link = NULL THEN {none}
       ELSE IF ns[link].type # ARC_VFS_N_LINK THEN {none}
       ELSE IF ns[link].link # NULL THEN {none}
       ELSE IF ns[link].st_size = 0 THEN {none}
       ELSE {IF n # ns[link].st_size \/ CharAt(ns[link].body, 1) = NUL
             THEN none
             ELSE [ok |-> TRUE, path |-> ns[link].body]
             : n \in vfs_read_results(ns, link)}

\* What a freed path buffer can hold when it is read afterwards, besides what it
\* held when it was freed.
FreedContents == {<< >>}

\* The buffer filepath points to after graph.c:437-443: after the first hop
\* the new path is freed right after it was read and is used nevertheless.
PathAfterHop(r, path) ==
    IF r.lnk_counter > 0 THEN {path} \cup FreedContents ELSE {path}

\* graph.c:430-449: with the resolve flag, read the link the walk ended on and
\* walk its body from the link's parent.
TraverseLinks(t, cap) ==
    LET r == th[t]
    IN /\ r.pc = "links"
       /\ IF MASKED_READ(r.flags, 0) = 1
          THEN \E new_path \in vfs_read_link(nodes, r.node) :
                 IF new_path.ok
                 THEN /\ r.lnk_counter < cap
                      /\ \E content \in PathAfterHop(r, new_path.path) :
                           th' = [th EXCEPT ![t] =
                                    [r EXCEPT !.filepath = content,
                                              !.org_node = IF r.lnk_counter > 0
                                                           THEN r.org_node ELSE r.node,
                                              !.lnk_counter = r.lnk_counter + 1,
                                              !.start = nodes[r.node].parent,
                                              !.pc = "re_iter"]]
                 ELSE th' = [th EXCEPT ![t] = [r EXCEPT !.pc = "finish"]]
          ELSE th' = [th EXCEPT ![t] = [r EXCEPT !.pc = "finish"]]
       /\ UNCHANGED <<nodes, lock, owned, drv_log, ops>>

\* skip_link with the walk's last node handed out in place of the first link.
EndOfTraverseTarget(ns, r) ==
    IF r.has_end
    THEN IF r.org_node # NULL
         THEN [ns |-> [ns EXCEPT ![r.org_node].link = r.node], end |-> r.node]
         ELSE [ns |-> ns, end |-> r.node]
    ELSE [ns |-> ARC_ATOMIC_DEC(ns, r.node), end |-> NULL]

\* What *end and the graph are after skip_link (graph.c:451-463): with an end
\* pointer the node is handed to the caller, and after link hops the first link is
\* given the node as its target and handed out instead.
EndOfTraverse(ns, r) ==
    IF r.has_end
    THEN IF r.org_node # NULL
         THEN [ns |-> [ns EXCEPT ![r.org_node].link = r.node], end |-> r.org_node]
         ELSE [ns |-> ns, end |-> r.node]
    ELSE [ns |-> ARC_ATOMIC_DEC(ns, r.node), end |-> NULL]

\* skip_link and create_ret_buff (graph.c:451-474): the remainder is a copy of the
\* path from the current component on.
TraverseFinish(t) ==
    LET r == th[t]
    IN /\ r.pc = "finish"
       /\ IF ~r.has_end /\ r.node = NULL
          THEN /\ th' = [th EXCEPT ![t] = [r EXCEPT !.pc = "fault"]]
               /\ UNCHANGED nodes
          ELSE /\ nodes' = EndOfTraverse(nodes, r).ns
               /\ th' = [th EXCEPT ![t] = [r EXCEPT !.end = EndOfTraverse(nodes, r).end,
                                                    !.ret = Suffix(r.filepath, r.comp_base),
                                                    !.pc = "ret"]]
       /\ UNCHANGED <<lock, owned, drv_log, ops>>

\* The caller takes the result: it now owns the reference *end carries.
TraverseReturn(t) ==
    LET r == th[t]
    IN /\ r.pc = "ret"
       /\ owned' = IF r.has_end /\ r.end # NULL
                   THEN [owned EXCEPT ![t][r.end] = @ + 1] ELSE owned
       /\ th' = [th EXCEPT ![t] =
                    [IdleThread EXCEPT !.got = IF r.has_end /\ r.end # NULL
                                               THEN [r.got EXCEPT ![r.end] = r.op]
                                               ELSE r.got]]
       /\ UNCHANGED <<nodes, lock, drv_log, ops>>

\* A caller gives up a reference it owns.
Release(t, n) ==
    /\ th[t].pc = "idle"
    /\ owned[t][n] > 0
    /\ nodes' = ARC_ATOMIC_DEC(nodes, n)
    /\ owned' = [owned EXCEPT ![t][n] = @ - 1]
    /\ th' = [th EXCEPT ![t].got[n] = IF owned[t][n] = 1 THEN "none" ELSE @]
    /\ UNCHANGED <<lock, drv_log, ops>>

(* ---------------------------------------------------------------------- *)
(* vfs_delete_node                                                        *)
(* ---------------------------------------------------------------------- *)
\* The values vfs_delete_node returns.
DEL_LOOP_COUNT == -1
DEL_HAS_CHILDREN == -2
DEL_NOT_PHYSICAL == -3
DEL_IN_USE == -5

\* A call of vfs_delete_node(node, flags) made by `caller`.
EnterDelete(r, node, flags, caller) ==
    [r EXCEPT !.pc = "d_top", !.node = node, !.flags = flags, !.caller = caller,
              !.parent = NULL, !.rc = 0]

vfs_delete_node(t, node, flags) ==
    /\ th[t].pc = "idle"
    /\ ops' = ops + 1
    /\ th' = [th EXCEPT ![t] =
                EnterDelete([IdleThread EXCEPT !.op = "delete", !.arg = node,
                                               !.pre = nodes,
                                               !.pre_log = Len(drv_log),
                                               !.seq = ops + 1, !.alone = Alone(t),
                                               !.got = th[t].got],
                            node, flags, "user")]
    /\ UNCHANGED <<nodes, lock, owned, drv_log>>

\* The checks without the one for the physical flag.
DeleteRefusalNoPhysical(ns, node, flags) ==
    IF node = NULL THEN DEL_LOOP_COUNT
    ELSE IF ns[node].type = ARC_VFS_N_DIR /\ ns[node].children # NULL
    THEN DEL_HAS_CHILDREN
    ELSE 0

\* The checks made before the lock is taken (graph.c:113-130): the value
\* returned, or 0 to go on.
DeleteRefusal(ns, node, flags) ==
    IF node = NULL THEN DEL_LOOP_COUNT
    ELSE IF ns[node].type = ARC_VFS_N_DIR /\ ns[node].children # NULL
    THEN DEL_HAS_CHILDREN
    ELSE IF ns[node].mount = NULL /\ MASKED_READ(flags, 1) # 1
    THEN DEL_NOT_PHYSICAL
    ELSE 0

\* top: (graph.c:113-130)
DeleteTop(t) ==
    LET r == th[t]
        rc == DeleteRefusal(nodes, r.node, r.flags)
    IN /\ r.pc = "d_top"
       /\ th' = [th EXCEPT ![t] =
                    IF rc # 0 THEN [r EXCEPT !.rc = rc, !.pc = "d_ret"]
                    ELSE [r EXCEPT !.parent = nodes[r.node].parent, !.pc = "d_lock"]]
       /\ UNCHANGED <<nodes, lock, owned, drv_log, ops>>

\* mutex_lock(&parent->branch_lock); the root has no parent and the lock of a
\* NULL parent is a NULL dereference.
DeleteLock(t) ==
    LET r == th[t]
    IN /\ r.pc = "d_lock"
       /\ IF r.parent = NULL
          THEN /\ th' = [th EXCEPT ![t] = [r EXCEPT !.pc = "fault"]]
               /\ UNCHANGED lock
          ELSE /\ LockFree(lock, r.parent)
               /\ lock' = [lock EXCEPT ![r.parent] = t]
               /\ th' = [th EXCEPT ![t] = [r EXCEPT !.pc = "d_body"]]
       /\ UNCHANGED <<nodes, owned, drv_log, ops>>

\* The node taken out of its sibling list (graph.c:140-148).
Detach(ns, node, parent) ==
    LET prev == ns[node].prev
        next == ns[node].next
        ns1 == IF prev # NULL THEN [ns EXCEPT ![prev].next = next]
               ELSE [ns EXCEPT ![parent].children = next]
    IN IF next # NULL THEN [ns1 EXCEPT ![next].prev = prev] ELSE ns1

\* The link's reference on its target given back (graph.c:150-152).
DropLinkTarget(ns, node) ==
    IF ns[node].type = ARC_VFS_N_LINK /\ ns[node].link # NULL
    THEN ARC_ATOMIC_DEC(ns, ns[node].link) ELSE ns

\* The driver calls of a deletion (graph.c:154-163), appended to the log.
DeleteDriverCalls(ns, log, node, parent, flags) ==
    LET log1 == IF ns[node].resource # NoResource
                THEN Append(log, [op |-> "uninit", path |-> ns[node].name,
                                  type |-> ns[node].type])
                ELSE log
    IN IF ns[node].mount # NULL /\ MASKED_READ(flags, 1) = 1
       THEN Append(log1, [op |-> "remove",
                          path |-> IF ns[parent].resource = NoResource
                                   THEN <<NUL>> ELSE ns[node].name,
                          type |-> ns[node].type])
       ELSE log1

\* free(node->name); free(node);
FreeNode(ns, node) == [ns EXCEPT ![node].alloc = FALSE]

\* Under the parent's lock (graph.c:133-168): a node in use is left alone and the
\* lock released, any other node is detached and freed.
DeleteBody(t) ==
    LET r == th[t]
    IN /\ r.pc = "d_body"
       /\ IF RefPositive(nodes[r.node].ref_count)
          THEN /\ lock' = mutex_unlock(lock, r.parent)
               /\ th' = [th EXCEPT ![t] = [r EXCEPT !.rc = DEL_IN_USE, !.pc = "d_ret"]]
               /\ UNCHANGED <<nodes, drv_log>>
          ELSE /\ nodes' = FreeNode(DropLinkTarget(Detach(nodes, r.node, r.parent),
                                                   r.node), r.node)
               /\ drv_log' = DeleteDriverCalls(nodes, drv_log, r.node, r.parent, r.flags)
               /\ th' = [th EXCEPT ![t] = [r EXCEPT !.pc = "d_unlock"]]
               /\ UNCHANGED lock
       /\ UNCHANGED <<owned, ops>>

\* graph.c:170-177: unlock, then either go on with the parent or return 0.
DeleteUnlock(t) ==
    LET r == th[t]
    IN /\ r.pc = "d_unlock"
       /\ lock' = mutex_unlock(lock, r.parent)
       /\ th' = [th EXCEPT ![t] =
                    IF MASKED_READ(r.flags, 0) = 1
                    THEN [r EXCEPT !.node = r.parent, !.pc = "d_top"]
                    ELSE [r EXCEPT !.rc = 0, !.pc = "d_ret"]]
       /\ UNCHANGED <<nodes, owned, drv_log, ops>>

(* ---------------------------------------------------------------------- *)
(* vfs_delete_node_recursive                                              *)
(* ---------------------------------------------------------------------- *)
\* flags & (~1)
WithoutPrune(flags) == flags - MASKED_READ(flags, 0)

Frame(node) == [node |-> node, in_use |-> 0, rounds |-> 0]

\* vfs_delete_node_recursive(node, flags): remember the parent, delete the
\* subtree, then call vfs_delete_node on the parent.
vfs_delete_node_recursive(t, node, flags) ==
    /\ th[t].pc = "idle"
    /\ ops' = ops + 1
    /\ th' = [th EXCEPT ![t] =
                [IdleThread EXCEPT !.op = "rdelete", !.arg = node, !.pc = "r_loop",
                                   !.start = nodes[node].parent, !.flags = flags,
                                   !.stack = <<Frame(node)>>,
                                   !.pre = nodes, !.pre_log = Len(drv_log),
                                   !.seq = ops + 1, !.alone = Alone(t),
                                   !.got = th[t].got]]
    /\ UNCHANGED <<nodes, lock, owned, drv_log>>

\* A frame of internal_vfs_recursive_delete returns v: the caller's frame adds it
\* to in_use, and the outermost call goes on to delete the parent.
RecursiveReturn(r, v) ==
    LET n == Len(r.stack)
    IN IF n = 1
       THEN EnterDelete([r EXCEPT !.stack = << >>], r.start, r.flags, "recursive")
       ELSE [r EXCEPT !.stack = [SubSeq(r.stack, 1, n - 1) EXCEPT
                                    ![n - 1].in_use = @ + v,
                                    ![n - 1].rounds = @ + 1],
                      !.pc = "r_loop"]

\* internal_vfs_recursive_delete (graph.c:180-203) at its loop: descend into the
\* first child while there is one, then report the children in use or delete the
\* node itself with pruning disabled.  A recursion deeper than the nodes there
\* are, which a children pointer leading back to an ancestor gives, runs out of
\* stack.
RecursiveLoop(t) ==
    LET r == th[t]
        n == Len(r.stack)
        f == r.stack[n]
    IN /\ r.pc = "r_loop"
       /\ th' = [th EXCEPT ![t] =
                    IF f.node = NULL THEN RecursiveReturn(r, 0)
                    ELSE IF nodes[f.node].children # NULL
                    THEN IF n > MaxNodes THEN [r EXCEPT !.pc = "fault"]
                         ELSE [r EXCEPT !.stack = Append(r.stack,
                                                         Frame(nodes[f.node].children))]
                    ELSE IF f.in_use > 0 THEN RecursiveReturn(r, f.in_use)
                    ELSE EnterDelete(r, f.node, WithoutPrune(WithoutPrune(r.flags)),
                                     "internal")]
       /\ f.rounds < MaxNodes
       /\ UNCHANGED <<nodes, lock, owned, drv_log, ops>>

\* vfs_delete_node returns to whoever called it.
DeleteReturn(t) ==
    LET r == th[t]
    IN /\ r.pc = "d_ret"
       /\ th' = [th EXCEPT ![t] =
                    IF r.caller = "internal"
                    THEN RecursiveReturn(r, IF r.rc # 0 THEN 1 ELSE 0)
                    ELSE IF r.caller = "recursive"
                    THEN [r EXCEPT !.rc = 0, !.pc = "ret0"]
                    ELSE IF r.caller = "unmount"
                    THEN [r EXCEPT !.pc = "u_unlock"]
                    ELSE [r EXCEPT !.pc = "ret0"]]
       /\ UNCHANGED <<nodes, lock, owned, drv_log, ops>>

\* The caller of a deletion has its result.
CallReturn(t) ==
    /\ th[t].pc = "ret0"
    /\ th' = [th EXCEPT ![t] = [IdleThread EXCEPT !.got = th[t].got]]
    /\ UNCHANGED <<nodes, lock, owned, drv_log, ops>>

(* ---------------------------------------------------------------------- *)
(* vfs_mount                                                              *)
(* ---------------------------------------------------------------------- *)
\* What vfs_mount returns when its lookup ended on a node other than a directory.
MNT_NOT_DIR == -2

\* What vfs_mount returns for the node n its lookup ended on: only the type of
\* the node is tested.
MountResult(ns, n) == IF ns[n].type # ARC_VFS_N_DIR THEN MNT_NOT_DIR ELSE 0

\* vfs_mount on the node n, made while no other call runs: a node that is not a
\* directory loses the reference of the lookup again; a directory becomes a mount
\* with the resource, and the reference of the lookup is kept.
vfs_mount(n) ==
    /\ \A t \in Threads : th[t].pc = "idle"
    /\ nodes[n].alloc
    /\ n # Root
    /\ nodes' = IF MountResult(nodes, n) # 0
                THEN ARC_ATOMIC_DEC(ARC_ATOMIC_INC(nodes, n), n)
                ELSE ARC_ATOMIC_INC([nodes EXCEPT ![n].type = ARC_VFS_N_MOUNT,
                                                  ![n].resource = "mnt"], n)
    /\ UNCHANGED <<lock, th, owned, drv_log, ops>>

(* ---------------------------------------------------------------------- *)
(* vfs_unmount                                                            *)
(* ---------------------------------------------------------------------- *)
\* The value vfs_unmount returns for a node that is not a mount.
EINVAL == 22

\* vfs_unmount(mount): a node that is not a mount is refused.
vfs_unmount(t, mount) ==
    /\ th[t].pc = "idle"
    /\ ops' = ops + 1
    /\ th' = [th EXCEPT ![t] =
                [IdleThread EXCEPT !.op = "unmount", !.arg = mount,
                                   !.rc = IF nodes[mount].type # ARC_VFS_N_MOUNT
                                          THEN EINVAL ELSE 0,
                                   !.pc = IF nodes[mount].type # ARC_VFS_N_MOUNT
                                          THEN "ret0" ELSE "u_lock",
                                   !.pre = nodes, !.pre_log = Len(drv_log),
                                   !.seq = ops + 1, !.alone = Alone(t),
                                   !.got = th[t].got]]
    /\ UNCHANGED <<nodes, lock, owned, drv_log>>

\* With the mount's branch_lock taken and frozen, the reference vfs_mount kept is
\* given up and vfs_delete_node(mount, 1) is called.
UnmountLock(t) ==
    LET r == th[t]
    IN /\ r.pc = "u_lock"
       /\ LockFree(lock, r.arg)
       /\ lock' = [lock EXCEPT ![r.arg] = t]
       /\ nodes' = ARC_ATOMIC_DEC(nodes, r.arg)
       /\ th' = [th EXCEPT ![t] = EnterDelete(r, r.arg, 1, "unmount")]
       /\ UNCHANGED <<owned, drv_log, ops>>

\* Whatever vfs_delete_node returned, the lock is released and 0 is returned.
UnmountUnlock(t) ==
    LET r == th[t]
    IN /\ r.pc = "u_unlock"
       /\ lock' = mutex_unlock(lock, r.arg)
       /\ th' = [th EXCEPT ![t] = [r EXCEPT !.rc = 0, !.pc = "ret0"]]
       /\ UNCHANGED <<nodes, owned, drv_log, ops>>

(* ---------------------------------------------------------------------- *)
(* Inputs and specifications                                              *)
(* ---------------------------------------------------------------------- *)
Paths ==
    {<<"/">>, <<"/", "a">>, <<"/", "b">>, <<"/", "a", "/", "b">>,
     <<"/", ".">>, <<"/", ".", ".">>, <<"/", "a", "/", ".">>,
     <<"/", "a", "/", ".", ".">>, <<"/", "/", "/", "a">>,
     <<"/", "a", "/", "/", "b">>}

CreatePaths == {<<"/", "a">>, <<"/", "a", "/", "b">>}

Infos ==
    {NodeInfo(ARC_VFS_N_DIR, << >>), NodeInfo(ARC_VFS_N_FILE, << >>)}
    \cup {NodeInfo(ARC_VFS_N_LINK, b) : b \in {<<"a">>, <<"b">>}}

Flags == 0..3

ConcPaths == {<<"/", "a">>, <<"/", "a", "/", "b">>}

DirInfo == NodeInfo(ARC_VFS_N_DIR, << >>)

\* A step of the traversal thread t is in.
WalkStep(t, cap) ==
    \/ TraverseReIter(t)
    \/ TraverseLoop(t)
    \/ TraverseLock(t)
    \/ TraverseScan(t)
    \/ TraverseUnlock(t)
    \/ TraverseCheck(t)
    \/ TraverseLinks(t, cap)
    \/ TraverseFinish(t)
    \/ TraverseReturn(t)

\* A step of the deletion thread t is in.
DeleteStep(t) ==
    \/ DeleteTop(t)
    \/ DeleteLock(t)
    \/ DeleteBody(t)
    \/ DeleteUnlock(t)
    \/ DeleteReturn(t)
    \/ RecursiveLoop(t)
    \/ CallReturn(t)

\* One caller, one call at a time.
Next ==
    \/ /\ ops < MaxOps
       /\ \/ \E p \in Paths, s \in Held(1), f \in Flags, e \in BOOLEAN :
               vfs_traverse_filepath(1, p, s, f, e)
          \/ \E p \in CreatePaths : vfs_load_filepath(1, p, Root, 0, TRUE)
          \/ \E p \in CreatePaths, i \in Infos :
               vfs_create_filepath(1, p, Root, 0, i, TRUE)
          \/ \E n \in Nodes, f \in Flags : nodes[n].alloc /\ vfs_delete_node(1, n, f)
          \/ \E n \in Nodes, f \in {0, 2} :
               nodes[n].alloc /\ n # Root /\ vfs_delete_node_recursive(1, n, f)
    \/ \E n \in Nodes : Release(1, n)
    \/ WalkStep(1, MaxHops)
    \/ TraverseNextIter(1)
    \/ DeleteStep(1)

Spec == Init /\ [][Next]_vars

(* ---------------------------------------------------------------------- *)
(* A caller on a graph with a mount                                       *)
(* ---------------------------------------------------------------------- *)
MountInfos == {DirInfo, NodeInfo(ARC_VFS_N_LINK, <<"b">>)}

\* One caller that creates, mounts and loads.
NextMount ==
    \/ /\ ops < MaxMountOps
       /\ \/ \E p \in ConcPaths, i \in MountInfos :
               vfs_create_filepath(1, p, Root, 0, i, TRUE)
          \/ \E p \in ConcPaths : vfs_load_filepath(1, p, Root, 0, TRUE)
    \/ \E n \in Nodes : vfs_mount(n)
    \/ \E n \in Nodes : Release(1, n)
    \/ WalkStep(1, MaxHops)

SpecMount == Init /\ [][NextMount]_vars

(* ---------------------------------------------------------------------- *)
(* Links that lead back to themselves                                     *)
(* ---------------------------------------------------------------------- *)
LinkPaths == {<<"/", "a">>, <<"/", "b">>}

LinkInfos == {NodeInfo(ARC_VFS_N_LINK, b) : b \in {<<"a">>, <<"b">>}}

\* One caller that makes links and walks them, followed for HopCap hops.
NextLinks ==
    \/ /\ ops < MaxOps
       /\ \/ \E p \in LinkPaths, i \in LinkInfos :
               vfs_create_filepath(1, p, Root, 0, i, TRUE)
          \/ \E p \in LinkPaths, f \in {0, 1} :
               vfs_traverse_filepath(1, p, Root, f, TRUE)
    \/ WalkStep(1, HopCap)

SpecLinks == Init /\ [][NextLinks]_vars

(* ---------------------------------------------------------------------- *)
(* Threads side by side                                                   *)
(* ---------------------------------------------------------------------- *)
WalkPcs == {"loop", "lock", "scan", "unlock", "check", "next_iter", "links", "finish"}

\* Thread t is about to read or write a node that free() was called on
\* (graph.c:167-168) by another thread.
Dangling(t) ==
    LET r == th[t]
        Freed(n) == n # NULL /\ ~nodes[n].alloc
    IN \/ r.pc \in WalkPcs /\ Freed(r.node)
       \/ r.pc \in {"check", "next_iter"} /\ Freed(r.next)
       \/ r.pc \in {"d_top", "d_lock", "d_body"} /\ Freed(r.node)
       \/ r.pc \in {"d_lock", "d_body", "d_unlock"} /\ Freed(r.parent)
       \/ r.pc = "r_loop" /\ Freed(r.stack[Len(r.stack)].node)

\* The access to freed memory need not find the node's last contents, which the
\* other steps read: it can also stop the thread for good.
Fault(t) ==
    /\ Dangling(t)
    /\ th' = [th EXCEPT ![t].pc = "fault"]
    /\ UNCHANGED <<nodes, lock, owned, drv_log, ops>>

\* Two callers whose creations and loads overlap, with and without a mount.
NextConc ==
    \/ /\ ops < MaxConcOps
       /\ \E t \in Threads :
            \/ vfs_load_filepath(t, <<"/", "a", "/", "b">>, Root, 0, TRUE)
            \/ \E p \in ConcPaths : vfs_create_filepath(t, p, Root, 0, DirInfo, TRUE)
    \/ \E n \in Nodes : vfs_mount(n)
    \/ \E t \in Threads : WalkStep(t, MaxHops)

SpecConc == Init /\ [][NextConc]_vars

\* Two callers whose traversals and deletions overlap.
NextLocks ==
    \/ /\ ops < MaxConcOps
       /\ \E t \in Threads :
            \/ vfs_traverse_filepath(t, <<"/", "a", "/", "b">>, Root, 0, TRUE)
            \/ vfs_load_filepath(t, <<"/", "a", "/", "b">>, Root, 0, TRUE)
            \/ vfs_create_filepath(t, <<"/", "a", "/", "b">>, Root, 0, DirInfo, TRUE)
            \/ \E n \in Nodes \ {Root} : nodes[n].alloc /\ vfs_delete_node(t, n, 3)
            \/ \E n \in Nodes \ {Root} :
                 nodes[n].alloc /\ vfs_delete_node_recursive(t, n, 2)
    \/ \E t \in Threads, n \in Nodes :
         (\A u \in Threads : th[u].pc = "idle") /\ Release(t, n)
    \/ \E t \in Threads : WalkStep(t, MaxHops) \/ DeleteStep(t) \/ Fault(t)

SpecLocks == Init /\ [][NextLocks]_vars

(* ---------------------------------------------------------------------- *)
(* Properties                                                             *)
(* ---------------------------------------------------------------------- *)
TraversalOps == {"traverse", "load", "create"}

\* Thread t's walk has its results and has not yet handed them to the caller.
Returned(t) == th[t].pc = "ret" /\ th[t].op \in TraversalOps

\* The ref_count node n had when thread t made its call (0 for a node that did
\* not exist then).
PreRef(t, n) == IF th[t].pre[n].alloc THEN th[t].pre[n].ref_count ELSE 0

\* ref_count of every node but those in S is what it was when t made its call.
RefsKeptBut(t, S) ==
    \A n \in Nodes \ S : nodes[n].alloc => nodes[n].ref_count = PreRef(t, n)

\* A walk with an end pointer that followed no link and found or made a node for
\* every component it looked up.
C1_Case(t) ==
    /\ Returned(t)
    /\ th[t].has_end
    /\ th[t].lnk_counter = 0
    /\ ~th[t].miss

\* C1: a traversal with a non-NULL end whose components all resolve and that
\* follows no link returns with the terminal node's ref_count one higher than
\* before the call and with the ref_count of the start node, of every
\* intermediate node and of every other node as before the call.
C1_TerminalRefOnly ==
    \A t \in Threads :
        C1_Case(t) =>
            /\ th[t].end # NULL
            /\ nodes[th[t].end].alloc
            /\ nodes[th[t].end].ref_count = PreRef(t, th[t].end) + 1
            /\ RefsKeptBut(t, {th[t].end})

\* A plain traversal of two components returned: the start, an intermediate
\* node and a terminal that existed before with a reference on it.
C1_Witness ==
    /\ C1_Case(1)
    /\ th[1].op = "traverse"
    /\ th[1].ret = << >>
    /\ nodes[th[1].end].parent \notin {NULL, th[1].start}
    /\ PreRef(1, th[1].end) = 1

RECURSIVE ListFrom(_, _)
\* The nodes of a sibling list from c on.
ListFrom(c, fuel) ==
    IF c = NULL \/ fuel = 0 THEN {} ELSE {c} \cup ListFrom(nodes[c].next, fuel - 1)

\* The children list of node p.
ChildrenOf(p) == ListFrom(nodes[p].children, MaxNodes)

RECURSIVE Ancestors(_, _)
\* Node n and the nodes above it.
Ancestors(n, fuel) ==
    IF n = NULL \/ fuel = 0 THEN {} ELSE {n} \cup Ancestors(nodes[n].parent, fuel - 1)

\* Thread t made its call while no other call ran and thread u the next call,
\* both are walks that found or made every component, and both still have their
\* results: no other call ran since t's was made.
C2_Pair(t, u) ==
    /\ C1_Case(t)
    /\ C1_Case(u)
    /\ th[t].alone
    /\ th[u].seq = th[t].seq + 1
    /\ th[t].op = th[u].op
    /\ th[t].op \in {"create", "load"}
    /\ th[t].path = th[u].path
    /\ th[t].start = th[u].start

\* The nodes allocated since thread t made its call.
NewSince(t) == {n \in Nodes : nodes[n].alloc /\ ~th[t].pre[n].alloc}

\* C2: two threads creating (or loading) the same path at the same time get the
\* same node; every component is materialized once (each node allocated since
\* lies on the path, and under a mount the driver was called once per such
\* node); the parent has one child of that name; and the node's ref_count is
\* two above what it was before the calls (2 for a node made by them).
C2_OneNode ==
    \A t \in Threads, u \in Threads :
        C2_Pair(t, u) =>
            LET e == th[t].end
            IN /\ th[u].end = e
               /\ {c \in ChildrenOf(nodes[e].parent) : nodes[c].name = nodes[e].name}
                    = {e}
               /\ NewSince(t) \subseteq Ancestors(e, MaxNodes)
               /\ Len(drv_log) - th[t].pre_log
                    = Cardinality({n \in NewSince(t) : nodes[n].mount # NULL})
               /\ nodes[e].ref_count = PreRef(t, e) + 2

\* Both threads created the same new node under a mount and hold it.
C2_Witness ==
    /\ C2_Pair(1, 2)
    /\ th[1].op = "create"
    /\ th[1].end \in NewSince(1)
    /\ nodes[th[1].end].mount # NULL
    /\ drv_log # << >>
    /\ nodes[th[1].end].ref_count = 2

\* Thread t called vfs_delete_node on a node whose ref_count was above 0, and
\* the call is over: it returned or it stopped in a fault.
C3_Case(t) ==
    /\ th[t].op = "delete"
    /\ th[t].pc \in {"ret0", "fault"}
    /\ th[t].arg # NULL
    /\ RefPositive(th[t].pre[th[t].arg].ref_count)

\* C3: vfs_delete_node on a node whose ref_count is above 0 returns the InUse
\* error and frees nothing: the graph (the parent's children list, the link
\* target's ref_count, the resource) and the driver log are as before the call
\* and no branch_lock is held on return.
C3_InUseRefused ==
    \A t \in Threads :
        C3_Case(t) =>
            /\ th[t].pc = "ret0"
            /\ th[t].rc = DEL_IN_USE
            /\ nodes = th[t].pre
            /\ Len(drv_log) = th[t].pre_log
            /\ \A n \in Nodes : lock[n] # t

\* C4: a traversal that resolves links ends with TooManyLinks after at most
\* MAX_LINK_HOPS link hops, also on links that form a cycle: no walk makes
\* more hops than that.
C4_HopsCapped == \A t \in Threads : th[t].lnk_counter <= MAX_LINK_HOPS

\* The node whose branch_lock thread t is about to take, NULL when it is not at
\* a mutex_lock.
WaitsFor(t) ==
    IF th[t].pc = "lock" THEN th[t].node
    ELSE IF th[t].pc = "d_lock" THEN th[t].parent
    ELSE NULL

\* Thread t is at a mutex_lock of a lock that is held.
Blocked(t) == WaitsFor(t) # NULL /\ ~LockFree(lock, WaitsFor(t))

Unfinished(t) == th[t].pc # "idle"

\* C5: whatever the interleaving of traversals, loads, creations and (recursive)
\* deletions, a thread at a mutex_lock holds no branch_lock, and there is no
\* state in which every thread that is in a call is blocked at a mutex_lock.
C5_NoDeadlock ==
    /\ \A t \in Threads : WaitsFor(t) # NULL => \A n \in Nodes : lock[n] # t
    /\ ~ /\ \E t \in Threads : Unfinished(t)
         /\ \A t \in Threads : Unfinished(t) => Blocked(t)

\* A deletion waits for the branch_lock of the parent while a creation holds it
\* for its scan.
C5_Witness ==
    /\ th[1].op \in {"delete", "rdelete"}
    /\ Blocked(1)
    /\ lock[WaitsFor(1)] = 2
    /\ th[2].op = "create"

RECURSIVE NamePath(_, _, _)
\* The path that names node n in graph ns: the names from the root down.
NamePath(ns, n, fuel) ==
    IF n = NULL \/ n = Root \/ fuel = 0 THEN << >>
    ELSE NamePath(ns, ns[n].parent, fuel - 1) \o <<"/">> \o ns[n].name

\* Thread t, still holding the reference that a vfs_create_filepath gave it to
\* node n, loaded the path of n from the root and has the results.
C6_Case(t, n) ==
    /\ Returned(t)
    /\ th[t].op = "load"
    /\ th[t].has_end
    /\ th[t].start = Root
    /\ n # Root
    /\ th[t].got[n] = "create"
    /\ owned[t][n] > 0
    /\ NamePath(th[t].pre, n, MaxNodes) = th[t].path

\* What C6 says of the load.
C6_SameNode(t, n) ==
    /\ th[t].end = n
    /\ th[t].ret = << >>
    /\ Len(drv_log) = th[t].pre_log
    /\ nodes[n].ref_count = PreRef(t, n) + 1

RECURSIVE SkipSeparators(_, _)
\* The first index of s from i on that is not a separator.
SkipSeparators(s, i) ==
    IF i <= Len(s) /\ s[i] = "/" THEN SkipSeparators(s, i + 1) ELSE i

RECURSIVE ComponentEnd(_, _)
\* The index after the run of non-separators of s that starts at i.
ComponentEnd(s, i) ==
    IF i <= Len(s) /\ s[i] # "/" THEN ComponentEnd(s, i + 1) ELSE i

\* The children of n in the graph as it is that have the given name.
ChildNamed(n, name) == {c \in ChildrenOf(n) : nodes[c].name = name}

RECURSIVE Resolve(_, _, _)
\* The node that the path s from index i on names, seen from node n in the graph
\* as it is, and what is left of s at the first component with no node: runs of
\* separators count as one, "." names n, ".." the parent of n and at the root
\* the root.
Resolve(n, s, i) ==
    LET b == SkipSeparators(s, i)
        e == ComponentEnd(s, b)
        name == SubSeq(s, b, e - 1)
    IN IF b > Len(s) THEN [node |-> n, rest |-> << >>]
       ELSE IF name = <<".">> THEN Resolve(n, s, e)
       ELSE IF name = <<".", ".">>
       THEN Resolve(IF nodes[n].parent = NULL THEN n ELSE nodes[n].parent, s, e)
       ELSE IF ChildNamed(n, name) = {} THEN [node |-> n, rest |-> Suffix(s, b)]
       ELSE Resolve(CHOOSE c \in ChildNamed(n, name) : TRUE, s, e)

\* A walk that was asked for the whole path, with an end pointer, and followed no
\* link, has returned.
C7_Case(t) ==
    /\ Returned(t)
    /\ th[t].has_end
    /\ th[t].lnk_counter = 0
    /\ MASKED_READ(th[t].flags, 1) = 0

\* C7: a traversal without link hops of a path whose k-th component is missing
\* and was not materialized reports the deepest resolved node, with one reference
\* more than before the call and no other ref_count changed, and as remainder the
\* path from component k on; the remainder is empty exactly if the whole path
\* was resolved.
C7_MissingComponent ==
    \A t \in Threads :
        C7_Case(t) =>
            LET w == Resolve(th[t].start, th[t].path, 1)
            IN /\ (th[t].ret = << >>) <=> (w.rest = << >>)
               /\ w.rest # << >> =>
                    /\ th[t].end = w.node
                    /\ th[t].ret = w.rest
                    /\ nodes[w.node].ref_count = PreRef(t, w.node) + 1
                    /\ RefsKeptBut(t, {w.node})

\* The path has neither an empty component nor a dot component.
PlainPath(s) ==
    /\ \A i \in 1..Len(s) : s[i] # "."
    /\ \A i \in 1..(Len(s) - 1) : ~(s[i] = "/" /\ s[i + 1] = "/")

\* What C7 says holds of the paths made of names and single separators.
MissOnPlainPaths ==
    \A t \in Threads :
        (C7_Case(t) /\ PlainPath(th[t].path)) =>
            LET w == Resolve(th[t].start, th[t].path, 1)
            IN /\ (th[t].ret = << >>) <=> (w.rest = << >>)
               /\ w.rest # << >> =>
                    /\ th[t].end = w.node
                    /\ th[t].ret = w.rest
                    /\ nodes[w.node].ref_count = PreRef(t, w.node) + 1
                    /\ RefsKeptBut(t, {w.node})

(* ---------------------------------------------------------------------- *)
(* Broken links                                                           *)
(* ---------------------------------------------------------------------- *)
\* What a caller reads as "not found": the call came back with a remainder.
NotFound(t) == Returned(t) /\ th[t].ret # << >>

\* The walk of a link body missed a component (graph.c:399-407) and the call is
\* past that point.
BrokenWalk(t) == th[t].op \in TraversalOps /\ th[t].broken

\* C8, the report: a walk of a link body that hits a component it cannot resolve
\* ends in an outcome other than the one of a missing path component, and hands
\* out no terminal node.
C8_BrokenLinkReported ==
    \A t \in Threads :
        BrokenWalk(t) =>
            /\ th[t].pc # "fault"
            /\ ~NotFound(t)
            /\ Returned(t) => th[t].end = NULL

\* What does hold of such a walk after one hop, when it has returned: it hands
\* out the link it started from, still without a target and with one more
\* reference, with the rest of the link body as remainder, and no other
\* ref_count differs from before the call.
BrokenWalkOneHop ==
    \A t \in Threads :
        (BrokenWalk(t) /\ Returned(t) /\ th[t].lnk_counter = 1) =>
            /\ th[t].org_node # NULL
            /\ th[t].end = th[t].org_node
            /\ th[t].ret # << >>
            /\ nodes[th[t].org_node].link = NULL
            /\ nodes[th[t].org_node].ref_count = PreRef(t, th[t].org_node) + 1
            /\ RefsKeptBut(t, {th[t].org_node})

(* ---------------------------------------------------------------------- *)
(* Dot components and repeated separators                                 *)
(* ---------------------------------------------------------------------- *)
\* The path has a component "." or "..": the names of nodes have no dot.
HasDot(s) == \E i \in 1..Len(s) : s[i] = "."

\* The path has two separators in a row.
HasEmptyComponent(s) == \E i \in 1..(Len(s) - 1) : s[i] = "/" /\ s[i + 1] = "/"

\* Thread t is in a walk of the path it was called with: no link was followed.
WalkOf(t) == th[t].op \in TraversalOps /\ th[t].lnk_counter = 0

\* C9: "." names the node it is met at and ".." its parent, at the root the
\* root: a walk of "/" or of a path with dot components (and single separators)
\* dereferences no NULL pointer and returns the node the path names with what is
\* left of the path, so "/", "/." and "/.." give the root and an empty remainder.
C9_DotComponents ==
    \A t \in Threads :
        (WalkOf(t) /\ ~HasEmptyComponent(th[t].path)
           /\ (HasDot(th[t].path) \/ th[t].path = <<"/">>)) =>
            /\ th[t].pc # "fault"
            /\ C7_Case(t) =>
                 LET w == Resolve(th[t].start, th[t].path, 1)
                 IN th[t].end = w.node /\ th[t].ret = w.rest

\* The walk is at the lookup of a component: lock, scan, callback or unlock.
AtLookup(t) == th[t].pc \in {"lock", "scan", "unlock", "check"}

\* C10: a path with repeated separators resolves as the path with single ones:
\* no lookup is made for an empty component (every component looked up starts
\* after the separators), and the walk returns the node the path names with what
\* is left of the path.
C10_RepeatedSeparators ==
    \A t \in Threads :
        (WalkOf(t) /\ HasEmptyComponent(th[t].path) /\ ~HasDot(th[t].path)) =>
            /\ AtLookup(t) => CharAt(th[t].filepath, th[t].comp_base) # "/"
            /\ C7_Case(t) =>
                 LET w == Resolve(th[t].start, th[t].path, 1)
                 IN th[t].end = w.node /\ th[t].ret = w.rest

(* ---------------------------------------------------------------------- *)
(* Deletion: directories with children                                    *)
(* ---------------------------------------------------------------------- *)
\* Node n is in the graph and hangs under a directory that was freed.
UnderFreedDir(n) ==
    /\ nodes[n].alloc
    /\ nodes[n].parent # NULL
    /\ ~nodes[nodes[n].parent].alloc
    /\ nodes[nodes[n].parent].type = ARC_VFS_N_DIR

\* C11: vfs_delete_node frees no directory that has children, whatever a
\* vfs_create_filepath that adds a child under it does at the same time: no node
\* of the graph has a freed directory as its parent.
C11_NoFreedParent == \A n \in Nodes : ~UnderFreedDir(n)

(* ---------------------------------------------------------------------- *)
(* Deletion: the refusals                                                 *)
(* ---------------------------------------------------------------------- *)
\* A vfs_delete_node call of thread t is over: it returned or stopped in a fault.
DeleteOver(t) == th[t].op = "delete" /\ th[t].pc \in {"ret0", "fault"}

\* The call of thread t returned v and changed nothing: graph, driver log and
\* locks are as before.
RefusedWith(t, v) ==
    /\ th[t].pc = "ret0"
    /\ th[t].rc = v
    /\ nodes = th[t].pre
    /\ Len(drv_log) = th[t].pre_log
    /\ \A n \in Nodes : lock[n] # t

\* Thread t called vfs_delete_node without the physical flag on a node that has
\* no mount, and the call is over.
C12_Case(t) ==
    /\ DeleteOver(t)
    /\ th[t].arg # NULL
    /\ th[t].pre[th[t].arg].mount = NULL
    /\ MASKED_READ(th[t].flags, 1) = 0

\* C12: vfs_delete_node without the physical flag on a node without a mount
\* returns the physical-delete-required error and changes nothing: no node is
\* detached or freed, no ref_count or resource differs, no lock stays held and
\* the driver is not called.
C12_PhysicalRequired ==
    \A t \in Threads : C12_Case(t) => RefusedWith(t, DEL_NOT_PHYSICAL)

\* The node is a directory with children.
DirWithChildren(ns, n) == ns[n].type = ARC_VFS_N_DIR /\ ns[n].children # NULL

\* C12 as it holds: the same for a node that is not a directory with children;
\* for a directory with children the has-children error comes first, and nothing
\* is changed either.
C12_PhysicalRequiredOrChildren ==
    \A t \in Threads :
        C12_Case(t) =>
            IF DirWithChildren(th[t].pre, th[t].arg)
            THEN RefusedWith(t, DEL_HAS_CHILDREN)
            ELSE RefusedWith(t, DEL_NOT_PHYSICAL)

\* A node other than the root, with no reference on it, was refused for the
\* missing physical flag although pruning was asked for.
C12_Witness ==
    /\ C12_Case(1)
    /\ th[1].arg # Root
    /\ th[1].pre[th[1].arg].ref_count = 0
    /\ ~DirWithChildren(th[1].pre, th[1].arg)
    /\ MASKED_READ(th[1].flags, 0) = 1
    /\ RefusedWith(1, DEL_NOT_PHYSICAL)

\* The root is never freed and keeps the reference init_vfs took.
RootPinned == nodes[Root].alloc /\ nodes[Root].ref_count >= 1

\* C13: the root cannot be removed: its ref_count stays at 1 or more, and
\* vfs_delete_node on the root, whatever the flags and whether or not the root
\* has children, returns the in-use error and changes nothing.
C13_RootInUse ==
    /\ RootPinned
    /\ \A t \in Threads :
         (DeleteOver(t) /\ th[t].arg = Root) => RefusedWith(t, DEL_IN_USE)

\* What does hold of vfs_delete_node on the root when it returns: one of the
\* two other refusals, and nothing changed.
RootRefused ==
    \A t \in Threads :
        (DeleteOver(t) /\ th[t].arg = Root /\ th[t].pc = "ret0") =>
            \/ RefusedWith(t, DEL_HAS_CHILDREN)
            \/ RefusedWith(t, DEL_NOT_PHYSICAL)

(* ---------------------------------------------------------------------- *)
(* Deletion: pruning upwards                                              *)
(* ---------------------------------------------------------------------- *)
\* vfs_delete_node(n, flags) meets every precondition in graph ns.
Deletable(ns, n, flags) ==
    /\ ns[n].alloc
    /\ ~RefPositive(ns[n].ref_count)
    /\ ~DirWithChildren(ns, n)
    /\ ns[n].mount # NULL \/ MASKED_READ(flags, 1) = 1

\* The nodes freed since thread t made its call.
FreedSince(t) == {n \in Nodes : th[t].pre[n].alloc /\ ~nodes[n].alloc}

\* Every node freed during the call of thread t had no reference on it, was no
\* mount and has no child left in the graph.
PruneKeepsBusy(t) ==
    \A n \in FreedSince(t) :
        /\ ~RefPositive(th[t].pre[n].ref_count)
        /\ th[t].pre[n].type # ARC_VFS_N_MOUNT
        /\ \A c \in Nodes : (nodes[c].alloc /\ c # n) => nodes[c].parent # n

\* Thread t called vfs_delete_node with the prune flag on a node it could delete.
C14_Case(t) ==
    /\ th[t].op = "delete"
    /\ th[t].arg # NULL
    /\ MASKED_READ(th[t].flags, 0) = 1
    /\ Deletable(th[t].pre, th[t].arg, th[t].flags)

\* C14: vfs_delete_node with the prune flag frees the node and then its former
\* ancestors up to the first that has other children, a reference or is a
\* mount, and frees none of those; it dereferences no pointer above the root,
\* and having deleted the requested node it returns success.
C14_PruneUpward ==
    \A t \in Threads :
        C14_Case(t) =>
            /\ th[t].pc # "fault"
            /\ th[t].pc = "ret0" =>
                 /\ th[t].rc = 0
                 /\ th[t].arg \in FreedSince(t)
                 /\ PruneKeepsBusy(t)

\* What does hold of such a call: whenever it is over the requested node is
\* freed and no node with a reference, with children or that is a mount is.
PruneFreesIdleOnly ==
    \A t \in Threads :
        (C14_Case(t) /\ DeleteOver(t)) =>
            /\ th[t].arg \in FreedSince(t)
            /\ PruneKeepsBusy(t)

(* ---------------------------------------------------------------------- *)
(* Recursive deletion                                                     *)
(* ---------------------------------------------------------------------- *)
RECURSIVE ListIn(_, _, _)
\* The nodes of the sibling list from c on in graph ns.
ListIn(ns, c, fuel) ==
    IF c = NULL \/ fuel = 0 THEN {} ELSE {c} \cup ListIn(ns, ns[c].next, fuel - 1)

\* The frames of internal_vfs_recursive_delete that thread t has on its stack.
Frames(t) == {th[t].stack[i] : i \in 1..Len(th[t].stack)}

\* Each round of the loop over node->children takes one child away, so a frame
\* makes no more rounds than its node had children when the call was made.
RoundsBounded(t) ==
    \A f \in Frames(t) :
        f.node # NULL =>
            f.rounds <= Cardinality(ListIn(th[t].pre, th[t].pre[f.node].children,
                                           MaxNodes))

\* C15: vfs_delete_node_recursive terminates, also when a descendant has a
\* reference and cannot be deleted (no frame goes round its loop more often than
\* its node has children), and it returns 0 exactly if the subtree was deleted,
\* otherwise the number of subtrees left.
C15_RecursiveTerminates ==
    \A t \in Threads :
        th[t].op = "rdelete" =>
            /\ RoundsBounded(t)
            /\ th[t].pc = "ret0" => (th[t].rc = 0 <=> ~nodes[th[t].arg].alloc)

(* ---------------------------------------------------------------------- *)
(* Link edges                                                             *)
(* ---------------------------------------------------------------------- *)
\* The link nodes of the graph whose target is n.
LinksTo(n) ==
    {l \in Nodes : nodes[l].alloc /\ nodes[l].type = ARC_VFS_N_LINK /\ nodes[l].link = n}

RECURSIVE SumOwned(_, _)
\* The references the callers in T hold on node n.
SumOwned(T, n) ==
    IF T = {} THEN 0
    ELSE LET t == CHOOSE x \in T : TRUE IN owned[t][n] + SumOwned(T \ {t}, n)

\* The references that pin node n: the one init_vfs takes on the root and the
\* one vfs_mount leaves on a mount.
Pins(n) ==
    (IF n = Root THEN 1 ELSE 0) + (IF nodes[n].type = ARC_VFS_N_MOUNT THEN 1 ELSE 0)

\* No thread is in a call.
Quiet == \A t \in Threads : th[t].pc = "idle"

\* Calls in a behaviour of two callers that resolve one link.
MaxRaceOps == 4

ResolvePath == <<"/", "a">>

TargetPath == <<"/", "b">>

TargetLink == NodeInfo(ARC_VFS_N_LINK, <<"b">>)

\* A directory /b and a link /a with body "b" are created by one caller; then two
\* callers traverse /a with links resolved, side by side or one after the other,
\* give their references back, and the link is deleted.
NextRace ==
    \/ /\ ops < MaxRaceOps
       /\ \/ /\ Quiet
             /\ ChildNamed(Root, <<"b">>) = {}
             /\ vfs_create_filepath(1, TargetPath, Root, 0, DirInfo, TRUE)
          \/ /\ Quiet
             /\ ChildNamed(Root, <<"b">>) # {}
             /\ ChildNamed(Root, <<"a">>) = {}
             /\ vfs_create_filepath(1, ResolvePath, Root, 0, TargetLink, TRUE)
          \/ /\ ChildNamed(Root, <<"a">>) # {}
             /\ \E t \in Threads : vfs_traverse_filepath(t, ResolvePath, Root, 1, TRUE)
          \/ /\ Quiet
             /\ \E n \in Nodes :
                  /\ nodes[n].alloc
                  /\ nodes[n].type = ARC_VFS_N_LINK
                  /\ vfs_delete_node(1, n, 2)
    \/ Quiet /\ \E t \in Threads, n \in Nodes : Release(t, n)
    \/ \E t \in Threads : WalkStep(t, MaxHops)
    \/ DeleteTop(1)
    \/ DeleteLock(1)
    \/ DeleteBody(1)
    \/ DeleteUnlock(1)
    \/ DeleteReturn(1)
    \/ CallReturn(1)

SpecRace == Init /\ [][NextRace]_vars

\* C16: while no call runs, the ref_count of every node is made up of the
\* references callers hold, the pins, and one reference for each link whose
\* target the node is: a link edge accounts for exactly one increment of its
\* target, also when two traversals resolved the link at the same time, and the
\* deletion of the link gives that one back.
C16_LinkEdgeOnce ==
    Quiet =>
        \A n \in Nodes :
            nodes[n].alloc =>
                nodes[n].ref_count
                    = SumOwned(Threads, n) + Pins(n) + Cardinality(LinksTo(n))

(* ---------------------------------------------------------------------- *)
(* A chain of links                                                       *)
(* ---------------------------------------------------------------------- *)
\* Calls one caller makes on a chain of links.
MaxChainOps == 4

ChainPaths == {<<"/", "a">>, <<"/", "b">>, <<"/", "c">>}

\* What is made at a path of the chain: /a leads to b, /b leads to c, /c is a
\* directory.
ChainInfo(p) ==
    IF p = <<"/", "a">> THEN NodeInfo(ARC_VFS_N_LINK, <<"b">>)
    ELSE IF p = <<"/", "b">> THEN NodeInfo(ARC_VFS_N_LINK, <<"c">>)
    ELSE DirInfo

\* One caller that makes the chain in any order and walks it.
NextChain ==
    \/ /\ ops < MaxChainOps
       /\ \/ \E p \in ChainPaths :
               vfs_create_filepath(1, p, Root, 0, ChainInfo(p), TRUE)
          \/ \E p \in ChainPaths, f \in {0, 1} :
               vfs_traverse_filepath(1, p, Root, f, TRUE)
          \/ \E p \in ChainPaths : vfs_load_filepath(1, p, Root, 0, TRUE)
    \/ \E n \in Nodes : Release(1, n)
    \/ WalkStep(1, MaxHops)

SpecChain == Init /\ [][NextChain]_vars

\* A walk with an end pointer that ended on a link without a target, followed
\* link bodies for at least one hop and found every component of them.
C17_Case(t) ==
    /\ Returned(t)
    /\ th[t].has_end
    /\ th[t].lnk_counter >= 1
    /\ th[t].org_node # NULL
    /\ th[t].node # NULL
    /\ ~th[t].miss

\* How much the ref_count of n is to differ from before the call of t: one for
\* the link the caller is handed, one for the node the link now leads to.
C17_Owed(t, n) ==
    (IF n = th[t].org_node THEN 1 ELSE 0) + (IF n = th[t].node THEN 1 ELSE 0)

\* C17: after a resolving traversal that ended on a link without a target and
\* took one or more link hops with success, the link's target is the final
\* node, the caller is handed the link, and the ref_count of every node is what
\* it was before the call but for the link (one more, the caller's) and the
\* final node (one more, the edge's): intermediate links and the directories the
\* re-walks started from are back at their count.
C17_ResolvedCounts ==
    \A t \in Threads :
        C17_Case(t) =>
            /\ nodes[th[t].org_node].link = th[t].node
            /\ th[t].end = th[t].org_node
            /\ \A n \in Nodes :
                 nodes[n].alloc => nodes[n].ref_count = PreRef(t, n) + C17_Owed(t, n)

\* What does hold: the same after exactly one hop.
ResolvedCountsOneHop ==
    \A t \in Threads :
        (C17_Case(t) /\ th[t].lnk_counter = 1) =>
            /\ nodes[th[t].org_node].link = th[t].node
            /\ th[t].end = th[t].org_node
            /\ \A n \in Nodes :
                 nodes[n].alloc => nodes[n].ref_count = PreRef(t, n) + C17_Owed(t, n)

(* ---------------------------------------------------------------------- *)
(* Loads through links                                                    *)
(* ---------------------------------------------------------------------- *)
\* A load from the root with an end pointer has returned and every component
\* it looked up was there.
C18_Load(t) ==
    /\ Returned(t)
    /\ th[t].op = "load"
    /\ th[t].has_end
    /\ th[t].start = Root
    /\ ~th[t].miss
    /\ Resolve(Root, th[t].path, 1).rest = << >>

\* The node the path of t's call names.
C18_Named(t) == Resolve(Root, th[t].path, 1).node

\* Such a load of the path of a link that has a target when the load is over:
\* resolved by this load or by an earlier walk.
C18_Case(t) ==
    /\ C18_Load(t)
    /\ nodes[C18_Named(t)].type = ARC_VFS_N_LINK
    /\ nodes[C18_Named(t)].link # NULL

CacheSlots == 2
\* Calls one caller makes on files.
MaxFileOps == 6

\* vfs_node_cache and vfs_node_cache_idx (vfs.c:52-53): vfs.c has no statement
\* that assigns to either, so they are what their initializers make them.
vfs_node_cache == [i \in 0..(CacheSlots - 1) |-> NULL]

vfs_node_cache_idx == 0

FileNames == {<<"a">>, <<"b">>, <<"c">>}

\* The node vfs_create_callback makes for the mode of a regular file, and for
\* the mode 0 of the lookups that do not create.
FileInfo == NodeInfo(ARC_VFS_N_FILE, << >>)

\* path_traverse(vfs_root, "/" name, vfs_create_callback, args): the child of
\* the root with the name, made by the callback if there is none (without a
\* mount the callback makes the node whatever args.create is), with a
\* reference for the caller; NULL if no node can be made.
path_traverse(ns, name, info) ==
    LET found == {c \in Nodes : ns[c].alloc /\ ns[c].parent = Root /\ ns[c].name = name}
    IN IF found # {}
       THEN {[ns |-> ARC_ATOMIC_INC(ns, c), node |-> c, made |-> FALSE] : c \in found}
       ELSE IF AllocAddrs(ns) = {}
       THEN {[ns |-> ns, node |-> NULL, made |-> FALSE]}
       ELSE {[ns |-> ARC_ATOMIC_INC(vfs_create_node(ns, Root, name, info, k), k),
              node |-> k, made |-> TRUE] : k \in AllocAddrs(ns)}

\* What graph_remove(node, true) returns: 0 with the node taken out of the graph
\* and freed, or an error with the graph as it was.
graph_remove_results == {0, -1}

\* vfs_remove_node (vfs.c:214-243) on a node outside any mount: one more
\* reference is given up, then the node is removed from the graph at once and
\* the reference of a link on its target is given back.
vfs_remove_node(ns, node) ==
    LET ns1 == ARC_ATOMIC_DEC(ns, node)
    IN {IF g # 0 THEN [ns |-> ns1, rc |-> -1]
        ELSE [ns |-> FreeNode(DropLinkTarget(Detach(ns1, node, ns1[node].parent), node),
                              node),
              rc |-> 0]
        : g \in graph_remove_results}

\* The caller's note of what became of node n.
Noted(n, what) == [th EXCEPT ![1].got[n] = what]

\* vfs_open(path, flags, mode, &file) (vfs.c:335-364): the node of the path with
\* a reference, kept in a new descriptor.  The descriptor is the local `file`;
\* the function has no assignment to *ret, the caller's th[1].node here, which
\* stays what it was.
vfs_open(name) ==
    /\ \A t \in Threads : th[t].pc = "idle"
    /\ ops < MaxFileOps
    /\ ops' = ops + 1
    /\ \E w \in path_traverse(nodes, name, FileInfo) :
         IF w.node = NULL
         THEN UNCHANGED <<nodes, owned, th>>
         ELSE /\ nodes' = w.ns
              /\ owned' = [owned EXCEPT ![1][w.node] = @ + 1]
              /\ th' = Noted(w.node, IF w.made THEN "loaded" ELSE "open")
    /\ UNCHANGED <<lock, drv_log>>

\* vfs_close(file) (vfs.c:473-487) on a descriptor of node n: the reference of
\* the descriptor is given up and the node is handed to vfs_remove_node; if that
\* fails one reference is put back.
vfs_close(n) ==
    /\ \A t \in Threads : th[t].pc = "idle"
    /\ ops < MaxFileOps
    /\ nodes[n].alloc
    /\ owned[1][n] > 0
    /\ th[1].got[n] \in {"open", "loaded"}
    /\ ops' = ops + 1
    /\ \E r \in vfs_remove_node(ARC_ATOMIC_DEC(nodes, n), n) :
         nodes' = IF r.rc # 0 THEN ARC_ATOMIC_INC(r.ns, n) ELSE r.ns
    /\ owned' = [owned EXCEPT ![1][n] = @ - 1]
    /\ th' = Noted(n, IF nodes[n].ref_count = 1 THEN "close" ELSE th[1].got[n])
    /\ UNCHANGED <<lock, drv_log>>

\* vfs_remove(path) (vfs.c:530-546) on a path the caller has no descriptor of:
\* the node of the path is looked up, its reference is given up and the node is
\* handed to vfs_remove_node.
vfs_remove(name) ==
    /\ \A t \in Threads : th[t].pc = "idle"
    /\ ops < MaxFileOps
    /\ ops' = ops + 1
    /\ \E w \in path_traverse(nodes, name, NoInfo) :
         IF w.node = NULL
         THEN UNCHANGED <<nodes, th>>
         ELSE /\ owned[1][w.node] = 0
              /\ \E r \in vfs_remove_node(ARC_ATOMIC_DEC(w.ns, w.node), w.node) :
                   nodes' = r.ns
              /\ th' = Noted(w.node, IF w.ns[w.node].ref_count = 1
                                     THEN "close" ELSE th[1].got[w.node])
    /\ UNCHANGED <<lock, owned, drv_log>>

\* One caller that opens, closes and removes files.
NextFiles ==
    \/ \E name \in FileNames : vfs_open(name)
    \/ \E n \in Nodes : vfs_close(n)
    \/ \E name \in FileNames : vfs_remove(name)

SpecFiles == Init /\ [][NextFiles]_vars

\* The nodes whose ref_count a vfs_close or vfs_remove brought to zero and that
\* the caller has not opened since.
Closed == {n \in Nodes : th[1].got[n] = "close"}

\* Node n is in a slot of the node cache.
InCache(n) == \E i \in DOMAIN vfs_node_cache : vfs_node_cache[i] = n

\* C19: a node whose ref_count vfs_close or vfs_remove brought to zero is kept,
\* in a slot of the node cache, until as many later ones as the cache has slots
\* have pushed it out: of the closed nodes the ones beyond the capacity of the
\* cache are freed, the oldest first, and the others are still there, each in a
\* slot.
C19_EvictionRing ==
    /\ \A n \in Closed : nodes[n].alloc => InCache(n)
    /\ Cardinality({n \in Closed : ~nodes[n].alloc})
         = max(Cardinality(Closed) - CacheSlots, 0)

(* ---------------------------------------------------------------------- *)
(* Mounting                                                               *)
(* ---------------------------------------------------------------------- *)
\* A node vfs_mount is to refuse: not a directory (a mount is none), or a
\* directory with children.
MountRefusable(ns, n) ==
    ns[n].type # ARC_VFS_N_DIR \/ ns[n].children # NULL

\* C20: a vfs_mount succeeds only on a directory without children; on a node
\* that is not a directory (a mount included) and on a directory with children
\* it returns an error and leaves the type, the resource, the children and the
\* ref_count of every node as they were.
C20_MountOnlyEmptyDir ==
    [][\A n \in Nodes :
         vfs_mount(n) =>
             /\ MountResult(nodes, n) = 0 => ~MountRefusable(nodes, n)
             /\ MountRefusable(nodes, n) =>
                  (MountResult(nodes, n) # 0 /\ nodes' = nodes)]_vars

(* ---------------------------------------------------------------------- *)
(* The reference a mount keeps                                            *)
(* ---------------------------------------------------------------------- *)
\* Calls one caller makes around a mount.
MaxPinOps == 3

\* One caller that creates, loads and deletes below a directory it mounts.
NextPin ==
    \/ /\ ops < MaxPinOps
       /\ \/ \E p \in ConcPaths : vfs_create_filepath(1, p, Root, 0, DirInfo, TRUE)
          \/ \E p \in ConcPaths : vfs_load_filepath(1, p, Root, 0, TRUE)
          \/ \E n \in Nodes \ {Root}, f \in Flags :
               nodes[n].alloc /\ vfs_delete_node(1, n, f)
          \/ \E n \in Nodes \ {Root}, f \in {0, 2} :
               nodes[n].alloc /\ vfs_delete_node_recursive(1, n, f)
    \/ \E n \in Nodes : vfs_mount(n)
    \/ \E n \in Nodes : Release(1, n)
    \/ WalkStep(1, MaxHops)
    \/ DeleteStep(1)

SpecPin == Init /\ [][NextPin]_vars

MaxUnmountOps == 3

\* One caller that creates, mounts, deletes and unmounts.
NextUnmount ==
    \/ /\ ops < MaxUnmountOps
       /\ \/ \E p \in ConcPaths : vfs_create_filepath(1, p, Root, 0, DirInfo, TRUE)
          \/ \E n \in Nodes \ {Root}, f \in {0, 2} :
               nodes[n].alloc /\ vfs_delete_node(1, n, f)
          \/ \E n \in Nodes \ {Root} : nodes[n].alloc /\ vfs_unmount(1, n)
    \/ \E n \in Nodes : vfs_mount(n)
    \/ \E n \in Nodes : Release(1, n)
    \/ WalkStep(1, MaxHops)
    \/ DeleteTop(1)
    \/ DeleteLock(1)
    \/ DeleteBody(1)
    \/ DeleteUnlock(1)
    \/ DeleteReturn(1)
    \/ CallReturn(1)
    \/ UnmountLock(1)
    \/ UnmountUnlock(1)

SpecUnmount == Init /\ [][NextUnmount]_vars

RECURSIVE Below(_, _, _, _)
\* Node n lies below node m in graph ns.
Below(ns, n, m, fuel) ==
    IF n = NULL \/ fuel = 0 \/ ns[n].parent = NULL THEN FALSE
    ELSE ns[n].parent = m \/ Below(ns, ns[n].parent, m, fuel - 1)

\* The nodes below m in graph ns.
Descendants(ns, m) == {n \in Nodes : ns[n].alloc /\ Below(ns, n, m, MaxNodes)}

\* Thread t has the result of a vfs_unmount of a mount that, when the call was
\* made, had no descendant with a reference.
C22_Case(t) ==
    /\ th[t].op = "unmount"
    /\ th[t].pc = "ret0"
    /\ th[t].pre[th[t].arg].type = ARC_VFS_N_MOUNT
    /\ \A d \in Descendants(th[t].pre, th[t].arg) : th[t].pre[d].ref_count = 0

\* The entries the driver log got during the call of t that uninitialise a
\* resource held by a node of type MOUNT.
C22_Closed(t) ==
    {i \in (th[t].pre_log + 1)..Len(drv_log) :
        drv_log[i].op = "uninit" /\ drv_log[i].type = ARC_VFS_N_MOUNT}

\* C22: a vfs_unmount of a mount with no descendant in use returns 0 and leaves
\* the node a directory without resource whose ref_count is the one it had
\* before vfs_mount took its reference, with every node below it freed and the
\* resource uninitialised exactly once.
C22_UnmountRestores ==
    \A t \in Threads :
        C22_Case(t) =>
            LET m == th[t].arg
            IN /\ th[t].rc = 0
               /\ nodes[m].alloc
               /\ nodes[m].type = ARC_VFS_N_DIR
               /\ nodes[m].resource = NoResource
               /\ nodes[m].ref_count = th[t].pre[m].ref_count - 1
               /\ \A d \in Descendants(th[t].pre, m) : ~nodes[d].alloc
               /\ Cardinality(C22_Closed(t)) = 1

\* What does hold of such a call: it returns 0, holds no branch_lock afterwards, and a
\* mount that is still there has given up the reference vfs_mount kept.
UnmountGivesUpPin ==
    \A t \in Threads :
        C22_Case(t) =>
            /\ th[t].rc = 0
            /\ \A n \in Nodes : lock[n] # t
            /\ nodes[th[t].arg].alloc =>
                 nodes[th[t].arg].ref_count = th[t].pre[th[t].arg].ref_count - 1

(* ---------------------------------------------------------------------- *)
(* Renaming: vfs_create and vfs_rename (vfs.c)                            *)
(* ---------------------------------------------------------------------- *)
\* Calls one caller makes on the paths of a rename.
MaxRenameOps == 4

\* The directory the renames work in, "/m", and the names below it and below
\* the root.
RenameDir == <<"m">>

RenameNames == {<<"x">>, <<"y">>}

\* A path "/name" (dir FALSE) or "/m/name" (dir TRUE).
RenamePaths == [dir : BOOLEAN, name : RenameNames]

\* The nodes the directory part of path p names.
DirOf(ns, p) ==
    IF ~p.dir THEN {Root}
    ELSE {c \in Nodes : ns[c].alloc /\ ns[c].parent = Root /\ ns[c].name = RenameDir}

\* The children of parent with the name.
Named(ns, parent, name) ==
    {c \in Nodes : ns[c].alloc /\ ns[c].parent = parent /\ ns[c].name = name}

\* What the driver's locate answers for a path of its mount.
LocateResults == {TRUE, FALSE}

\* path_traverse(parent, name, vfs_create_callback, args) for one component: the
\* child of parent with the name and a reference for the caller.  A child that
\* is missing is made by vfs_create_callback (vfs.c:143-200): outside a mount
\* as it is, under a mount after the driver's locate and, if that finds
\* nothing and args.create is set, the driver's create, whose failure takes the
\* node back.
path_traverse_at(ns, log, parent, name, info, create) ==
    LET found == Named(ns, parent, name)
        mount == CallbackMount(ns, parent)
        log1 == Append(log, [op |-> "locate", path |-> name, type |-> ARC_VFS_NULL])
        log2 == Append(log1, [op |-> "create", path |-> name, type |-> info.type])
        made(l) == {[ns |-> ARC_ATOMIC_INC(vfs_create_node(ns, parent, name, info, k), k),
                     log |-> l, node |-> k, made |-> TRUE] : k \in AllocAddrs(ns)}
    IN IF found # {}
       THEN {[ns |-> ARC_ATOMIC_INC(ns, c), log |-> log, node |-> c, made |-> FALSE]
             : c \in found}
       ELSE IF AllocAddrs(ns) = {}
       THEN {[ns |-> ns, log |-> log, node |-> NULL, made |-> FALSE]}
       ELSE IF mount = NULL
       THEN made(log)
       ELSE UNION {IF there \/ ~create THEN made(log1)
                   ELSE UNION {IF rc # 0
                               THEN {[ns |-> ns, log |-> log2, node |-> NULL,
                                      made |-> FALSE]}
                               ELSE made(log2) : rc \in DriverCreateResults}
                   : there \in LocateResults}

\* graph_add(parent, node, name): the node becomes the first child of parent
\* under the name.
graph_add(ns, parent, node, name) ==
    LET head == ns[parent].children
        ns1 == [ns EXCEPT ![node].parent = parent, ![node].name = name,
                          ![node].next = head, ![node].prev = NULL]
        ns2 == IF head # NULL THEN [ns1 EXCEPT ![head].prev = node] ELSE ns1
    IN [ns2 EXCEPT ![parent].children = node]

\* The caller's note of a rename that returned: its result, its two paths, the
\* node the first path named, the graph and the length of the driver's log
\* before the call.
RenameNote(rc, from, to, node) ==
    [th EXCEPT ![1].op = "rename", ![1].rc = rc, ![1].arg = node,
               ![1].filepath = from.name, ![1].path = to.name,
               ![1].alone = from.dir /\ to.dir,
               ![1].pre = nodes, ![1].pre_log = Len(drv_log)]

\* vfs_create(path, mode) (vfs.c:510-528): the node of the path, made if it is
\* missing; the reference of the lookup is given up.
vfs_create(parent, name, info) ==
    /\ \A t \in Threads : th[t].pc = "idle"
    /\ ops < MaxRenameOps
    /\ nodes[parent].alloc
    /\ ops' = ops + 1
    /\ \E w \in path_traverse_at(nodes, drv_log, parent, name, info, TRUE) :
         /\ nodes' = IF w.node = NULL THEN w.ns ELSE ARC_ATOMIC_DEC(w.ns, w.node)
         /\ drv_log' = w.log
    /\ th' = [th EXCEPT ![1].op = "create"]
    /\ UNCHANGED <<lock, owned>>

\* vfs_rename(from, to) (vfs.c:596-656): the node of from is looked up without
\* creating, the directory of to is looked up creating, the node is taken out
\* of the graph by graph_remove(node, false) and put below the directory under
\* the last component of to.  The return with -5 keeps the reference on the
\* directory.  The directory of to exists here.
vfs_rename(from, to) ==
    /\ \A t \in Threads : th[t].pc = "idle"
    /\ ops < MaxRenameOps
    /\ ops' = ops + 1
    /\ \E fp \in DirOf(nodes, from), tp \in DirOf(nodes, to) :
       \E w \in path_traverse_at(nodes, drv_log, fp, from.name, NoInfo, FALSE) :
         IF w.node = NULL
         THEN /\ nodes' = w.ns
              /\ drv_log' = w.log
              /\ th' = RenameNote(-2, from, to, NULL)
         ELSE \E g \in graph_remove_results :
                LET ns1 == ARC_ATOMIC_INC(w.ns, tp)
                    ns2 == ARC_ATOMIC_DEC(ns1, w.node)
                    ns3 == graph_add(Detach(ns2, w.node, ns2[w.node].parent),
                                     tp, w.node, to.name)
                IN /\ nodes' = IF g # 0 THEN ns2 ELSE ARC_ATOMIC_DEC(ns3, tp)
                   /\ drv_log' = w.log
                   /\ th' = RenameNote(IF g # 0 THEN -5 ELSE 0, from, to, w.node)
    /\ UNCHANGED <<lock, owned>>

\* One caller that makes "/m", mounts it, makes files and renames them.
NextRename ==
    \/ vfs_create(Root, RenameDir, DirInfo)
    \/ \E p \in RenamePaths : \E d \in DirOf(nodes, p) : vfs_create(d, p.name, FileInfo)
    \/ \E n \in Nodes : nodes[n].name = RenameDir /\ ops < MaxRenameOps /\ vfs_mount(n)
    \/ \E from, to \in RenamePaths : from # to /\ vfs_rename(from, to)

SpecRename == Init /\ [][NextRename]_vars

\* A rename of "/m/from" to "/m/to", both under the one mount "/m", has returned
\* 0; before the call "/m/from" named one node of the graph and "/m/to" named
\* nothing.
C23_Case ==
    /\ th[1].op = "rename" /\ th[1].rc = 0 /\ th[1].alone
    /\ th[1].arg # NULL
    /\ th[1].pre[th[1].arg].alloc
    /\ th[1].pre[th[1].arg].mount # NULL
    /\ \A d \in Nodes : Named(th[1].pre, d, th[1].path) = {}
    /\ \A d \in Nodes : Named(th[1].pre, d, th[1].filepath) \subseteq {th[1].arg}

\* The calls of the driver's rename since the rename began.
RenameCalls ==
    {i \in (th[1].pre_log + 1)..Len(drv_log) : drv_log[i].op = "rename"}

\* What the graph shows after such a rename: the new path names the node the old
\* one named, under the last component of the new path, and the old path names
\* nothing.
RenameMovesNode ==
    C23_Case =>
      \A d \in DirOf(nodes, [dir |-> TRUE, name |-> th[1].path]) :
        /\ Named(nodes, d, th[1].path) = {th[1].arg}
        /\ nodes[th[1].arg].name = th[1].path
        /\ Named(nodes, d, th[1].filepath) = {}

\* C23: after a successful vfs_rename(A, B) inside one mount, B names the node A
\* named before, A names nothing, the node carries the last component of B and
\* the driver's rename was called exactly once with the two paths relative to
\* the mount.
C23_RenameInMount ==
    C23_Case =>
      /\ \A d \in DirOf(nodes, [dir |-> TRUE, name |-> th[1].path]) :
           /\ Named(nodes, d, th[1].path) = {th[1].arg}
           /\ nodes[th[1].arg].name = th[1].path
           /\ Named(nodes, d, th[1].filepath) = {}
      /\ Cardinality(RenameCalls) = 1
      /\ \A i \in RenameCalls : drv_log[i].path = <<th[1].filepath, th[1].path>>

(* ---------------------------------------------------------------------- *)
(* The shape of the graph                                                 *)
(* ---------------------------------------------------------------------- *)
RECURSIVE ListEnds(_, _)
\* The sibling list from c on comes to its end.
ListEnds(c, fuel) ==
    IF c = NULL THEN TRUE
    ELSE IF fuel = 0 THEN FALSE
    ELSE ListEnds(nodes[c].next, fuel - 1)

\* Node n hangs where its fields say: its parent is a node of the graph, n is in
\* the children list of that parent and in no other, and the list around n is
\* linked both ways.
WellPlaced(n) ==
    LET p == nodes[n].parent
    IN /\ p # NULL
       /\ nodes[p].alloc
       /\ ListEnds(nodes[p].children, MaxNodes)
       /\ n \in ChildrenOf(p)
       /\ \A q \in Nodes \ {p} : nodes[q].alloc => n \notin ChildrenOf(q)
       /\ nodes[n].next # NULL => nodes[nodes[n].next].prev = n
       /\ nodes[n].prev # NULL => nodes[nodes[n].prev].next = n
       /\ nodes[p].children = n => nodes[n].prev = NULL

\* Calls one caller makes on the graph.
MaxShapeOps == 3

\* One caller that creates, loads and deletes.
NextShape ==
    \/ /\ ops < MaxShapeOps
       /\ \/ \E p \in CreatePaths : vfs_load_filepath(1, p, Root, 0, TRUE)
          \/ \E p \in CreatePaths, i \in Infos :
               vfs_create_filepath(1, p, Root, 0, i, TRUE)
          \/ \E n \in Nodes, f \in {0, 2} : nodes[n].alloc /\ vfs_delete_node(1, n, f)
          \/ \E n \in Nodes, f \in {0, 2} :
               nodes[n].alloc /\ n # Root /\ vfs_delete_node_recursive(1, n, f)
    \/ \E n \in Nodes : Release(1, n)
    \/ WalkStep(1, MaxHops)
    \/ DeleteStep(1)

SpecShape == Init /\ [][NextShape]_vars

\* C24: between the calls of create, load, delete and recursive delete, every
\* node of the graph but the root is in the children list of its parent and of
\* no other node, once, and the sibling links agree with each other: the next
\* of a node has the node as its prev and the head of a list has no prev.
C24_ChildrenLists ==
    Quiet => \A n \in Nodes \ {Root} : nodes[n].alloc => WellPlaced(n)

(* ---------------------------------------------------------------------- *)
(* The mount a node belongs to                                            *)
(* ---------------------------------------------------------------------- *)
RECURSIVE ClosestMount(_, _)
\* The first node of type MOUNT on the way from node a up to the root, NULL if
\* there is none.
ClosestMount(a, fuel) ==
    IF a = NULL \/ fuel = 0 THEN NULL
    ELSE IF nodes[a].type = ARC_VFS_N_MOUNT THEN a
    ELSE ClosestMount(nodes[a].parent, fuel - 1)

\* C25: between the calls, the mount field of every node of the graph is the
\* closest ancestor of type MOUNT, and NULL if the node has no such ancestor.
C25_ClosestMount ==
    Quiet => \A n \in Nodes \ {Root} :
               nodes[n].alloc => nodes[n].mount = ClosestMount(nodes[n].parent, MaxNodes)

(* ---------------------------------------------------------------------- *)
(* vfs_infer_driver (graph.c)                                             *)
(* ---------------------------------------------------------------------- *)
\* (uint64_t)-1, the driver_index that stands for "not given".  A uint64_t x is
\* written as the integer congruent to it modulo 2^64 that is closest to 0, so
\* that 0 - 1 is this value as it is in the code.
DRIVER_UNSET == -1

\* The dri_index values of the resource of a mount and the driver_index values
\* a caller gives.
MaxDriIndex == 3

\* The values ARC_DRIDEF_BUFFER_FILE is tried with: the header that defines it
\* is not part of the sources.
BufferFileValues == {0, 1, 4}

\* The arguments of a call of vfs_infer_driver: whether mount is NULL, the
\* dri_index of mount->resource, and the type and driver_index of *info.
InferArgs ==
    [mount : BOOLEAN, dri_index : 0..MaxDriIndex, buffer_file : BufferFileValues,
     type : {ARC_VFS_NULL, ARC_VFS_N_FILE, ARC_VFS_N_DIR, ARC_VFS_N_MOUNT,
             ARC_VFS_N_LINK},
     driver_index : (0..MaxDriIndex) \cup {DRIVER_UNSET}]

\* vfs_infer_driver(mount, info) (graph.c:84-103): info->driver_index afterwards,
\* a uint64_t.
vfs_infer_driver(a) ==
    IF a.driver_index # DRIVER_UNSET THEN a.driver_index
    ELSE IF ~a.mount
    THEN a.buffer_file - (IF a.type = ARC_VFS_N_DIR THEN 1 ELSE 0)
    ELSE IF a.type = ARC_VFS_N_DIR THEN a.dri_index + 1
    ELSE a.dri_index + 2

\* Before a call of vfs_infer_driver: the graph of init_vfs and the arguments
\* of the call, with a mount that has a dri_index only if there is one.
InitInfer ==
    /\ nodes = init_vfs
    /\ lock = [n \in Nodes |-> NoThread]
    /\ \E a \in InferArgs :
         /\ ~a.mount => a.dri_index = 0
         /\ th = [t \in Threads |->
                    IF t = 1 THEN [IdleThread EXCEPT !.op = "infer", !.pc = "call", !.arg = a]
                    ELSE IdleThread]
    /\ owned = [t \in Threads |-> [n \in Nodes |-> 0]]
    /\ drv_log = << >>
    /\ ops = 0

\* The call: the driver_index it leaves in *info is kept in rc.
InferCall ==
    /\ th[1].op = "infer" /\ th[1].pc = "call"
    /\ th' = [th EXCEPT ![1].pc = "idle", ![1].rc = vfs_infer_driver(th[1].arg)]
    /\ UNCHANGED <<nodes, lock, owned, drv_log, ops>>

SpecInfer == InitInfer /\ [][InferCall]_vars

\* A call of vfs_infer_driver has returned.
C26_Case == th[1].op = "infer" /\ th[1].pc = "idle"

\* C26: with driver_index not given, vfs_infer_driver gives a directory below a
\* mount the dri_index of the mount, any other node below a mount dri_index + 1
\* and a node outside any mount ARC_DRIDEF_BUFFER_FILE; a driver_index that was
\* given stays as it is.
C26_InferDriver ==
    C26_Case =>
      LET a == th[1].arg
      IN th[1].rc = IF a.driver_index # DRIVER_UNSET THEN a.driver_index
                    ELSE IF ~a.mount THEN a.buffer_file
                    ELSE IF a.type = ARC_VFS_N_DIR THEN a.dri_index
                    ELSE a.dri_index + 1

\* What holds of vfs_infer_driver: a driver_index that was given stays as it is,
\* and a node that is no directory gets ARC_DRIDEF_BUFFER_FILE outside any mount.
InferKeepsGiven ==
    C26_Case =>
      LET a == th[1].arg
      IN /\ a.driver_index # DRIVER_UNSET => th[1].rc = a.driver_index
         /\ (a.driver_index = DRIVER_UNSET /\ ~a.mount /\ a.type # ARC_VFS_N_DIR)
              => th[1].rc = a.buffer_file

(* ---------------------------------------------------------------------- *)
(* vfs_get_relative_path                                                  *)
(* ---------------------------------------------------------------------- *)
\* The absolute paths the function is called with.
RelPaths ==
    {<<"/", "m", "n", "t", "/", "a", "b", "c", "/", "x">>,
     <<"/", "m", "n", "t", "/", "a", "b", "d", "/", "y">>,
     <<"/", "m", "n", "t", "/", "l">>,
     <<"/", "m", "n", "t", "/", "t", ".", "t", "x", "t">>,
     <<"/", "m", "n", "t">>,
     <<"/", "a">>,
     <<"/", "b">>,
     <<"/", "a", "b">>,
     <<"/", "a", "/", "b">>,
     <<"/", "a", "/", "c">>,
     <<"/", "a", "/", "b", "/", "c">>}

\* vfs_get_relative_path(from, to) (part_002:815-847), the string it returns.
\* from[j] of the code is from[j + 1] here.  i is the index of the first
\* character in which the two strings differ, dotdots one less than the number
\* of '/' in from at the indices i - 1 and above (i - 1 is SIZE_MAX for i = 0,
\* which no index reaches), and 0 if there is none.
vfs_get_relative_path(from, to) ==
    LET max_from == Len(from)
        max_to == Len(to)
        lim == IF max_from < max_to THEN max_from ELSE max_to
        RECURSIVE scan(_)
        scan(i) == IF i < lim /\ from[i + 1] = to[i + 1] THEN scan(i + 1) ELSE i
        i == scan(0)
        slashes == IF i = 0 THEN {}
                   ELSE {j \in 0..(max_from - 1) : j >= i - 1 /\ from[j + 1] = "/"}
        dotdots == IF slashes = {} THEN 0 ELSE Cardinality(slashes) - 1
        RECURSIVE ups(_)
        ups(k) == IF k = 0 THEN << >> ELSE <<".", ".", "/">> \o ups(k - 1)
    IN ups(dotdots) \o SubSeq(to, i + 1, max_to)

\* Before a call of vfs_get_relative_path: the graph of init_vfs and the two
\* paths of the call.
InitRel ==
    /\ nodes = init_vfs
    /\ lock = [n \in Nodes |-> NoThread]
    /\ \E from \in RelPaths, to \in RelPaths :
         th = [t \in Threads |->
                 IF t = 1 THEN [IdleThread EXCEPT !.op = "relative", !.pc = "call",
                                                  !.filepath = from, !.path = to]
                 ELSE IdleThread]
    /\ owned = [t \in Threads |-> [n \in Nodes |-> 0]]
    /\ drv_log = << >>
    /\ ops = 0

\* The call: the string it returns is kept in ret.
RelCall ==
    /\ th[1].op = "relative" /\ th[1].pc = "call"
    /\ th' = [th EXCEPT ![1].pc = "idle",
                        ![1].ret = vfs_get_relative_path(th[1].filepath, th[1].path)]
    /\ UNCHANGED <<nodes, lock, owned, drv_log, ops>>

SpecRel == InitRel /\ [][RelCall]_vars

\* A call of vfs_get_relative_path has returned.
C27_Case == th[1].op = "relative" /\ th[1].pc = "idle"

\* The number of characters up to the last '/' that the two paths share: the
\* largest k with from and to equal in their first k characters and a '/' as
\* the k-th.
SharedSlash(from, to) ==
    LET ks == {k \in 1..Len(from) : /\ k <= Len(to)
                                    /\ SubSeq(from, 1, k) = SubSeq(to, 1, k)
                                    /\ from[k] = "/"}
    IN CHOOSE k \in ks : \A m \in ks : m <= k

RECURSIVE DotDots(_)
\* k times "../".
DotDots(k) == IF k = 0 THEN << >> ELSE <<".", ".", "/">> \o DotDots(k - 1)

\* C27: vfs_get_relative_path(from, to) for absolute paths is one "../" for each
\* '/' of from after the last '/' the two paths share, followed by what to has
\* after that '/'.
C27_RelativePath ==
    C27_Case =>
      LET from == th[1].filepath
          to == th[1].path
          k == SharedSlash(from, to)
          n == Cardinality({j \in (k + 1)..Len(from) : from[j] = "/"})
      IN th[1].ret = DotDots(n) \o SubSeq(to, k + 1, Len(to))

\* What holds of vfs_get_relative_path: two paths that differ first right after
\* a '/' they share, from having no '/' after it, give what to has after that
\* '/'.
RelativeInOneDirectory ==
    C27_Case =>
      LET from == th[1].filepath
          to == th[1].path
          k == SharedSlash(from, to)
      IN (/\ k < Len(from) /\ k < Len(to) /\ from[k + 1] # to[k + 1]
          /\ \A j \in (k + 1)..Len(from) : from[j] # "/")
           => th[1].ret = SubSeq(to, k + 1, Len(to))

(* ---------------------------------------------------------------------- *)
(* Calls that fail                                                        *)
(* ---------------------------------------------------------------------- *)
\* C28: a call of the facade that returns an error leaves the ref_count of
\* every node as it was before the call and holds no lock when it returns;
\* here for vfs_rename.
C28_ErrorsRelease ==
    [][\A from, to \in RenamePaths :
         (vfs_rename(from, to) /\ th'[1].rc # 0)
           => /\ \A n \in Nodes : nodes'[n].ref_count = nodes[n].ref_count
              /\ \A n \in Nodes : lock'[n] = NoThread]_vars

\* What holds of a vfs_rename that fails: it holds no lock when it returns, and
\* the nodes the graph had are where they were, each under its name.
FailedRenameMovesNothing ==
    [][\A from, to \in RenamePaths :
         (vfs_rename(from, to) /\ th'[1].rc = -5)
           => /\ \A n \in Nodes : lock'[n] = NoThread
              /\ \A n \in Nodes :
                   nodes[n].alloc => /\ nodes'[n].alloc
                                     /\ nodes'[n].parent = nodes[n].parent
                                     /\ nodes'[n].name = nodes[n].name]_vars

(* ---------------------------------------------------------------------- *)
(* What vfs_open hands back                                               *)
(* ---------------------------------------------------------------------- *)
\* The node a step of vfs_open took a reference on for its descriptor.
Opened(n) == owned'[1][n] = owned[1][n] + 1

\* C29: a vfs_open that returns 0 leaves in *ret a descriptor of the node the
\* path names, and the ref_count of that node is one higher than before the
\* call.
C29_OpenStores ==
    [][\A name \in FileNames : \A n \in Nodes :
         (vfs_open(name) /\ Opened(n))
           => /\ th'[1].node = n
              /\ nodes'[n].name = name
              /\ nodes'[n].ref_count
                   = (IF nodes[n].alloc THEN nodes[n].ref_count ELSE 0) + 1]_vars

\* What holds of a vfs_open that returns 0: the node is the one the path names
\* and its ref_count is one higher than before the call.
OpenTakesOneReference ==
    [][\A name \in FileNames : \A n \in Nodes :
         (vfs_open(name) /\ Opened(n))
           => /\ nodes'[n].name = name
              /\ nodes'[n].ref_count
                   = (IF nodes[n].alloc THEN nodes[n].ref_count ELSE 0) + 1]_vars

(* ---------------------------------------------------------------------- *)
(* vfs_write (vfs.c)                                                      *)
(* ---------------------------------------------------------------------- *)
\* The arguments of a vfs_write: buffer (NULL or the address of a buffer), size
\* and count.
WriteArgs == [buffer : {NULL, 1}, size : {0, 1}, count : {0, 2}]

\* What the driver's read and write answer: the number of bytes moved, at most
\* size * count.
DriverIoResults(size, count) == {0, size * count}

\* vfs_write(buffer, size, count, file) (vfs.c:397-427) with file NULL or the
\* descriptor of node `file`: nothing is done for a NULL or zero argument or a
\* node without a resource; otherwise the node is held while the driver of its
\* resource is called through its read entry, and what that returns is
\* returned.
vfs_write(buffer, size, count, file) ==
    /\ \A t \in Threads : th[t].pc = "idle"
    /\ ops < MaxFileOps
    /\ file # NULL => (nodes[file].alloc /\ owned[1][file] > 0)
    /\ ops' = ops + 1
    /\ IF buffer = NULL \/ size = 0 \/ count = 0 \/ file = NULL
       THEN /\ th' = [th EXCEPT ![1].op = "write", ![1].rc = 0]
            /\ UNCHANGED <<nodes, drv_log>>
       ELSE IF nodes[file].resource = NoResource
       THEN /\ nodes' = ARC_ATOMIC_DEC(ARC_ATOMIC_INC(nodes, file), file)
            /\ th' = [th EXCEPT ![1].op = "write", ![1].rc = 0]
            /\ UNCHANGED drv_log
       ELSE LET node == IF nodes[file].link # NULL THEN nodes[file].link ELSE file
            IN \E ret \in DriverIoResults(size, count) :
                 /\ nodes' = ARC_ATOMIC_DEC(ARC_ATOMIC_INC(nodes, file), node)
                 /\ drv_log' = Append(drv_log, [op |-> "read", path |-> nodes[file].name,
                                                type |-> <<buffer, size, count, ret>>])
                 /\ th' = [th EXCEPT ![1].op = "write", ![1].rc = ret]
    /\ UNCHANGED <<lock, owned>>

\* One caller that opens files and writes to them.
NextWrite ==
    \/ \E name \in FileNames : vfs_open(name)
    \/ \E a \in WriteArgs, f \in Nodes \cup {NULL} :
         vfs_write(a.buffer, a.size, a.count, f)

SpecWrite == Init /\ [][NextWrite]_vars

\* The calls of the driver a step makes.
NewCalls == {i \in (Len(drv_log) + 1)..Len(drv_log') : TRUE}

\* C30: a vfs_write with a buffer, a size and a count that are not NULL or 0,
\* on the descriptor of a node with a resource, calls the write of the driver
\* once with the buffer, the size and the count, calls no read, and returns
\* what the driver returned; with one of the arguments NULL or 0 it returns 0
\* and calls no driver.
C30_WriteCallsWrite ==
    [][\A a \in WriteArgs, f \in Nodes \cup {NULL} :
         vfs_write(a.buffer, a.size, a.count, f)
           => IF a.buffer = NULL \/ a.size = 0 \/ a.count = 0 \/ f = NULL
              THEN th'[1].rc = 0 /\ drv_log' = drv_log
              ELSE nodes[f].resource # NoResource
                     => /\ Cardinality(NewCalls) = 1
                        /\ \A i \in NewCalls :
                             /\ drv_log'[i].op = "write"
                             /\ drv_log'[i].type = <<a.buffer, a.size, a.count, th'[1].rc>>]_vars

\* What holds of vfs_write: with one of the arguments NULL or 0 it returns 0 and
\* calls no driver; otherwise, on a node with a resource, it calls the driver
\* once with the buffer, the size and the count, returns what the driver
\* returned and leaves the ref_count of the node as it was.
WriteCallsDriverOnce ==
    [][\A a \in WriteArgs, f \in Nodes \cup {NULL} :
         vfs_write(a.buffer, a.size, a.count, f)
           => IF a.buffer = NULL \/ a.size = 0 \/ a.count = 0 \/ f = NULL
              THEN th'[1].rc = 0 /\ drv_log' = drv_log
              ELSE nodes[f].resource # NoResource
                     => /\ Cardinality(NewCalls) = 1
                        /\ \A i \in NewCalls : drv_log'[i].type = <<a.buffer, a.size, a.count, th'[1].rc>>
                        /\ nodes' = nodes]_vars

(* ---------------------------------------------------------------------- *)
(* References never below zero                                            *)
(* ---------------------------------------------------------------------- *)
\* C31: the ref_count of every node of the graph is at least 0 after every call
\* of vfs_open, vfs_close and vfs_remove: none of them takes off more than was
\* put on.  A count below 0 here is the unsigned counter wrapped around.
C31_RefNonNegative ==
    \A n \in Nodes : nodes[n].alloc => nodes[n].ref_count >= 0

(* ---------------------------------------------------------------------- *)
(* vfs_traverse: the walk that hands the lock on (part_001)               *)
(* ---------------------------------------------------------------------- *)
EPERM == 1

\* Calls one caller makes of vfs_traverse.
MaxHandOps == 3

\* The arguments of a vfs_traverse from the root: the path, info->create_level
\* (0, ARC_VFS_NO_CREAT or ARC_VFS_NOLCMP), info->type, what check_permissions
\* answers for info->mode, and which of the call's ticket_lock calls returns
\* NULL (0: none).
HandArgs ==
    [filepath : {<<"/", "a">>, <<"/", "a", "/", "b">>, <<"/", "a", "/", "b", "/", "c">>,
                 <<"x">>, << >>},
     create_level : {0, 1, 8},
     type : {ARC_VFS_N_FILE, ARC_VFS_N_DIR},
     perm : {0, EPERM},
     fail : 0..2]

\* vfs_traverse(filepath, info, 0) (part_001:237-543) for a caller that holds
\* nothing, with info->start the root, info->node NULL and no mount on the
\* way: the graph, the locks, the value returned and info->node afterwards.
\* filepath[i] of the code is filepath[i + 1] here; `calls` counts the calls
\* of ticket_lock.
vfs_traverse(ns0, lk0, a) ==
    LET max_ == Len(a.filepath)
        out(ns, lk, rc, node) == [ns |-> ns, lk |-> lk, rc |-> rc, node |-> node]
        \* ARC_ATOMIC_DEC(node->ref_count); ticket_unlock(ticket);
        drop(ns, lk, node, rc) == out(ARC_ATOMIC_DEC(ns, node), mutex_unlock(lk, node), rc, NULL)
        RECURSIVE scan(_, _, _, _)
        \* while (next != NULL) { if (strncmp(component, next->name, size) == 0) break; ... }
        scan(ns, c, p, n) ==
            IF c = NULL THEN NULL
            ELSE IF strncmp0(a.filepath, p, ns[c].name, 1, n) THEN c
            ELSE scan(ns, ns[c].next, p, n)
        RECURSIVE loop(_, _, _, _, _, _)
        loop(ns, lk, node, i, last_sep, calls) ==
            IF i >= max_ THEN out(ns, lk, 0, node)
            ELSE
              LET is_last == (i = max_ - 1)
                  ch == a.filepath[i + 1]
                  lead == a.filepath[last_sep + 1] = "/"
                  base == IF lead THEN last_sep + 1 ELSE last_sep
                  size == (i - last_sep) - (IF lead THEN 1 ELSE 0)
                            + (IF is_last /\ ch # "/" THEN 1 ELSE 0)
              IN IF ~is_last /\ ch # "/" THEN loop(ns, lk, node, i + 1, last_sep, calls)
                 ELSE IF is_last /\ MASKED_READ(a.create_level, 3) = 1
                 THEN loop(ns, lk, node, i + 1, last_sep, calls)
                 ELSE IF size <= 0 THEN loop(ns, lk, node, i + 1, i, calls)
                 ELSE IF a.perm # 0 THEN drop(ns, lk, node, EPERM)
                 ELSE
                   LET found == scan(ns, ns[node].children, base + 1, size)
                       name == SubSeq(a.filepath, base + 1, base + size)
                       info == NodeInfo(IF is_last THEN a.type ELSE ARC_VFS_N_DIR, << >>)
                   IN IF found = NULL /\ MASKED_READ(a.create_level, 0) = 1
                      THEN drop(ns, lk, node, -3)
                      ELSE IF found = NULL /\ AllocAddrs(ns) = {}
                      THEN drop(ns, lk, node, i)
                      ELSE
                        LET next == IF found # NULL THEN found ELSE Min(AllocAddrs(ns))
                            ns1 == IF found # NULL THEN ns
                                   ELSE vfs_create_node(ns, node, name, info, next)
                        IN IF a.fail = calls + 1 THEN drop(ns1, lk, node, -3)
                           ELSE loop(ARC_ATOMIC_INC(ARC_ATOMIC_DEC(ns1, node), next),
                                     [mutex_unlock(lk, node) EXCEPT ![next] = 1],
                                     next, i + 1, i, calls + 1)
    IN IF max_ = 0 THEN out(ns0, lk0, -1, NULL)
       ELSE IF a.fail = 1 THEN out(ARC_ATOMIC_INC(ns0, Root), lk0, -1, NULL)
       ELSE loop(ARC_ATOMIC_INC(ns0, Root), [lk0 EXCEPT ![Root] = 1], Root, 0, 0, 1)

\* A call of vfs_traverse by a caller that holds nothing.
TraverseCall(a) ==
    /\ \A t \in Threads : th[t].pc = "idle"
    /\ ops < MaxHandOps
    /\ ops' = ops + 1
    /\ LET r == vfs_traverse(nodes, lock, a)
       IN /\ nodes' = r.ns
          /\ lock' = r.lk
          /\ th' = [th EXCEPT ![1].pc = "t_ret", ![1].op = "vfs_traverse",
                              ![1].rc = r.rc, ![1].node = r.node, ![1].arg = a,
                              ![1].pre = nodes]
    /\ UNCHANGED <<owned, drv_log>>

\* The caller is done with what the call gave it: after a return of 0 with a
\* node it gives the reference up and unlocks the ticket.
TraverseDone ==
    /\ th[1].pc = "t_ret"
    /\ IF th[1].rc = 0 /\ th[1].node # NULL
       THEN /\ nodes' = ARC_ATOMIC_DEC(nodes, th[1].node)
            /\ lock' = mutex_unlock(lock, th[1].node)
       ELSE UNCHANGED <<nodes, lock>>
    /\ th' = [th EXCEPT ![1].pc = "idle"]
    /\ UNCHANGED <<owned, drv_log, ops>>

NextHand ==
    \/ \E a \in HandArgs : TraverseCall(a)
    \/ TraverseDone

SpecHand == Init /\ [][NextHand]_vars

\* A call of vfs_traverse has returned and its caller has done nothing yet.
C32_Case == th[1].op = "vfs_traverse" /\ th[1].pc = "t_ret"

\* C32: when vfs_traverse returns 0, the caller holds the branch_lock of
\* info->node and that node's ref_count is one higher than before the call;
\* when it returns another value, no branch_lock is held and every ref_count is
\* what it was before the call.
C32_HandOff ==
    C32_Case =>
      IF th[1].rc = 0
      THEN /\ th[1].node # NULL
           /\ lock[th[1].node] = 1
           /\ nodes[th[1].node].ref_count = PreRef(1, th[1].node) + 1
      ELSE /\ \A n \in Nodes : lock[n] = NoThread
           /\ RefsKeptBut(1, {})

\* What holds of vfs_traverse when every ticket_lock gives a ticket: C32,
\* but for a return of 0 that leaves info->node as it was.
HandOffWithTickets ==
    (C32_Case /\ th[1].arg.fail = 0 /\ ~(th[1].rc = 0 /\ th[1].node = NULL))
      => IF th[1].rc = 0
         THEN /\ lock[th[1].node] = 1
              /\ \A n \in Nodes \ {th[1].node} : lock[n] = NoThread
              /\ nodes[th[1].node].ref_count = PreRef(1, th[1].node) + 1
         ELSE /\ \A n \in Nodes : lock[n] = NoThread
              /\ RefsKeptBut(1, {})

(* ---------------------------------------------------------------------- *)
(* Writers of a children list                                             *)
(* ---------------------------------------------------------------------- *)
\* A step writes the children list of node p, a node of the graph: the head,
\* or the next or prev of a node that is a child of p before or after the step.
WritesChildren(p) ==
    /\ nodes[p].alloc
    /\ \/ nodes'[p].children # nodes[p].children
       \/ \E c \in Nodes :
            /\ \/ nodes[c].alloc /\ nodes[c].parent = p
               \/ nodes'[c].alloc /\ nodes'[c].parent = p
            /\ \/ nodes'[c].next # nodes[c].next
               \/ nodes'[c].prev # nodes[c].prev

MaxReuseOps == 4

\* One thread that deletes nodes, and one that makes "/a/b", gives up its
\* references and deletes subtrees.
SpecReuse ==
    Init /\ [][\/ /\ ops < MaxReuseOps
                  /\ \/ vfs_create_filepath(2, <<"/", "a", "/", "b">>, Root, 0, DirInfo, TRUE)
                     \/ \E n \in Nodes \ {Root} : nodes[n].alloc /\ vfs_delete_node(1, n, 3)
                     \/ \E n \in Nodes \ {Root} :
                          nodes[n].alloc /\ vfs_delete_node_recursive(2, n, 2)
               \/ \E n \in Nodes : (\A u \in Threads : th[u].pc = "idle") /\ Release(2, n)
               \/ \E t \in Threads : WalkStep(t, MaxHops) \/ DeleteStep(t) \/ Fault(t)]_vars

\* C33: a step that writes the children list of a node is made by a thread that
\* holds the branch_lock of that node.
C33_WritesUnderLock ==
    [][\A p \in Nodes :
         WritesChildren(p) => \E t \in Threads : th'[t] # th[t] /\ lock[p] = t]_vars

\* A thread has put a node into a children list, or taken one out, and holds
\* the branch_lock of the parent.

(* ---------------------------------------------------------------------- *)
(* A callback that returns NULL                                           *)
(* ---------------------------------------------------------------------- *)
\* The step of thread t is a callback of graph.c that returned NULL.
CallbackReturnsNull(t) ==
    /\ th[t].pc = "unlock"
    /\ th[t].next = NULL
    /\ th[t].op \in {"create", "load"}
    /\ th'[t].pc = "check"
    /\ th'[t].next = NULL

\* C34: when callback_vfs_create_filepath or callback_vfs_load_filepath returns
\* NULL, the children list of the parent, the next and prev of every node and the
\* set of allocated nodes are what they were before the callback was called.
C34_NullLeavesGraph ==
    [][\A t \in Threads :
         CallbackReturnsNull(t) =>
           /\ nodes'[th[t].node].children = nodes[th[t].node].children
           /\ \A n \in Nodes :
                /\ nodes'[n].alloc = nodes[n].alloc
                /\ nodes'[n].next = nodes[n].next
                /\ nodes'[n].prev = nodes[n].prev
                /\ nodes'[n].parent = nodes[n].parent]_vars

\* A callback under a mount asked the driver and returned NULL.
C34_Witness ==
    \E t \in Threads :
      /\ th[t].pc = "check"
      /\ th[t].next = NULL
      /\ th[t].op \in {"create", "load"}
      /\ Len(drv_log) > th[t].pre_log
      /\ nodes[th[t].node].alloc

(* ---------------------------------------------------------------------- *)
(* What vfs_create_filepath creates                                       *)
(* ---------------------------------------------------------------------- *)
\* One caller that creates paths of up to three components, and mounts.
NextDeep ==
    \/ /\ ops < MaxMountOps
       /\ \E p \in ConcPaths \cup {<<"/", "a", "/", "b", "/", "c">>}, i \in MountInfos :
            vfs_create_filepath(1, p, Root, 0, i, TRUE)
    \/ \E n \in Nodes : vfs_mount(n)
    \/ \E n \in Nodes : Release(1, n)
    \/ WalkStep(1, MaxHops)

SpecDeep == Init /\ [][NextDeep]_vars

RECURSIVE MountRelative(_, _, _)
\* The path that leads from the mount m down to the node p, with a separator
\* after every name; empty for the mount itself.
MountRelative(p, m, k) ==
    IF p = m \/ p = NULL \/ k = 0 THEN << >>
    ELSE MountRelative(nodes[p].parent, m, k - 1) \o nodes[p].name \o <<"/">>

\* The step of thread t is the create callback for a missing component, and it
\* came back.
C35_Case(t) ==
    /\ th[t].pc = "unlock"
    /\ th[t].next = NULL
    /\ th[t].op = "create"
    /\ th'[t].pc # "unlock"

\* C35: the create callback makes a missing non-terminal component a Dir and the
\* terminal one of the type of info; under a mount it calls the driver's create
\* once with the path of the component relative to the mount and with that type,
\* and without a mount it calls no driver and the new node has no mount.
C35_CreatesComponents ==
    [][\A t \in Threads :
         C35_Case(t) =>
           LET r == th[t]
               m == CallbackMount(nodes, r.node)
               name == SubSeq(r.filepath, r.comp_base, r.comp_base + r.comp_len - 1)
               rel == MountRelative(r.node, m, MaxNodes) \o name
               kind == IF r.comp_base + r.comp_len - 1 = Len(r.filepath)
                       THEN r.info.type ELSE ARC_VFS_N_DIR
               new == th'[t].next
           IN /\ th'[t].pc = "check"
              /\ new # NULL =>
                   /\ nodes'[new].type = kind
                   /\ nodes'[new].name = name
                   /\ nodes'[new].mount = m
              /\ IF m = NULL
                 THEN drv_log' = drv_log
                 ELSE \E path \in {rel, <<"/">> \o rel} :
                        drv_log' = Append(drv_log, [op |-> "create", path |-> path,
                                                    type |-> kind])]_vars

\* What holds of the create callback: the type and mount of the new node,
\* no driver call without a mount, and under a mount one driver call whose path
\* ends in the component and is the component alone when the parent has a
\* resource of its own.
CreateNamesComponent ==
    [][\A t \in Threads :
         C35_Case(t) =>
           LET r == th[t]
               m == CallbackMount(nodes, r.node)
               name == SubSeq(r.filepath, r.comp_base, r.comp_base + r.comp_len - 1)
               kind == IF r.comp_base + r.comp_len - 1 = Len(r.filepath)
                       THEN r.info.type ELSE ARC_VFS_N_DIR
               new == th'[t].next
           IN /\ new # NULL =>
                   /\ nodes'[new].type = kind
                   /\ nodes'[new].mount = m
              /\ IF m = NULL
                 THEN drv_log' = drv_log
                 ELSE /\ Len(drv_log') = Len(drv_log) + 1
                      /\ drv_log'[Len(drv_log')].type = kind
                      /\ nodes[r.node].resource # NoResource =>
                           drv_log'[Len(drv_log')].path = name]_vars

(* ---------------------------------------------------------------------- *)
(* A walk and a deletion of the node it found                             *)
(* ---------------------------------------------------------------------- *)
\* C36: the child a walk found under the branch_lock of the parent is allocated
\* when the walk takes its reference on it after the unlock, whatever a
\* vfs_delete_node of another thread does in between.
C36_FoundIsAllocated ==
    \A t \in Threads :
      (th[t].pc = "check" /\ th[t].next # NULL) => nodes[th[t].next].alloc

\* What holds: with the lock of the parent still held the child the scan found is
\* allocated.
FoundUnderLockIsAllocated ==
    \A t \in Threads :
      (th[t].pc = "unlock" /\ th[t].next # NULL /\ lock[th[t].node] = t
       /\ nodes[th[t].node].alloc /\ nodes[th[t].next].parent = th[t].node)
        => nodes[th[t].next].alloc

(* ---------------------------------------------------------------------- *)
(* vfs_read and vfs_link (vfs.c)                                          *)
(* ---------------------------------------------------------------------- *)
\* vfs_read(buffer, size, count, file) (vfs.c:365-395) with file NULL or the
\* descriptor of node `file`: the node of the descriptor is held on entry; a
\* node without a resource is let go at once; otherwise the driver's read is
\* called and the reference is given up on the target of the link if the node
\* has one, on the node itself if not.
vfs_read(buffer, size, count, file) ==
    /\ \A t \in Threads : th[t].pc = "idle"
    /\ ops < MaxFileOps
    /\ file # NULL => (nodes[file].alloc /\ owned[1][file] > 0)
    /\ ops' = ops + 1
    /\ IF buffer = NULL \/ size = 0 \/ count = 0 \/ file = NULL
       THEN /\ th' = [th EXCEPT ![1].op = "read", ![1].rc = 0]
            /\ UNCHANGED <<nodes, drv_log>>
       ELSE IF nodes[file].resource = NoResource
       THEN /\ nodes' = ARC_ATOMIC_DEC(ARC_ATOMIC_INC(nodes, file), file)
            /\ th' = [th EXCEPT ![1].op = "read", ![1].rc = 0]
            /\ UNCHANGED drv_log
       ELSE LET node == IF nodes[file].link # NULL THEN nodes[file].link ELSE file
            IN \E ret \in DriverIoResults(size, count) :
                 /\ nodes' = ARC_ATOMIC_DEC(ARC_ATOMIC_INC(nodes, file), node)
                 /\ drv_log' = Append(drv_log, [op |-> "read", path |-> nodes[file].name,
                                                type |-> <<buffer, size, count, ret>>])
                 /\ th' = [th EXCEPT ![1].op = "read", ![1].rc = ret]
    /\ UNCHANGED <<lock, owned>>

\* vfs_link(file, link, mode) (vfs.c:548-590) for two paths "/file" and "/link"
\* outside any mount: both nodes are looked up, and made by vfs_create_callback
\* if missing (vfs.c:166-170: only a regular file gets a resource), the link gets
\* its target, the relative path is written through a descriptor of the link
\* (vfs_write, vfs.c:397-427), and the reference on the link is given up while
\* the one on the file is kept.
vfs_link(file, link) ==
    /\ \A t \in Threads : th[t].pc = "idle"
    /\ ops < MaxFileOps
    /\ ops' = ops + 1
    /\ LET bare(w) == IF w.made THEN [w.ns EXCEPT ![w.node].resource = NoResource]
                      ELSE w.ns
       IN \E f \in path_traverse(nodes, file, NoInfo) :
            IF f.node = NULL
            THEN /\ th' = [th EXCEPT ![1].op = "link", ![1].rc = -2]
                 /\ UNCHANGED <<nodes, drv_log>>
            ELSE \E l \in path_traverse(bare(f), link, NodeInfo(ARC_VFS_N_LINK, << >>)) :
                   IF l.node = NULL
                   THEN /\ nodes' = l.ns
                        /\ th' = [th EXCEPT ![1].op = "link", ![1].rc = -3]
                        /\ UNCHANGED drv_log
                   ELSE LET ns1 == [bare(l) EXCEPT ![l.node].link = f.node]
                            ns2 == ARC_ATOMIC_INC(ns1, l.node)
                        IN /\ IF ns1[l.node].resource = NoResource
                              THEN /\ nodes' = ARC_ATOMIC_DEC(ARC_ATOMIC_DEC(ns2, l.node),
                                                              l.node)
                                   /\ UNCHANGED drv_log
                              ELSE /\ nodes' = ARC_ATOMIC_DEC(ARC_ATOMIC_DEC(ns2, f.node),
                                                              l.node)
                                   /\ drv_log' = Append(drv_log,
                                                   [op |-> "read", path |-> link,
                                                    type |-> <<1, 1, 1, 0>>])
                           /\ th' = [th EXCEPT ![1].op = "link", ![1].rc = 0]
    /\ UNCHANGED <<lock, owned>>

MaxIoOps == 4

\* One caller that opens files, links them, reads and writes.
NextIo ==
    \/ ops < MaxIoOps /\ \E name \in FileNames : vfs_open(name)
    \/ ops < MaxIoOps /\ \E file, link \in FileNames : file # link /\ vfs_link(file, link)
    \/ ops < MaxIoOps /\ \E a \in WriteArgs, f \in Nodes \cup {NULL} :
                           vfs_write(a.buffer, a.size, a.count, f)
    \/ ops < MaxIoOps /\ \E a \in WriteArgs, f \in Nodes \cup {NULL} :
                           vfs_read(a.buffer, a.size, a.count, f)

SpecIo == Init /\ [][NextIo]_vars

\* C37: a vfs_read or a vfs_write leaves the ref_count of every node as it was,
\* also on the descriptor of a link with a target and on a node without a
\* resource.
C37_IoKeepsRefs ==
    [][\A a \in WriteArgs, f \in Nodes \cup {NULL} :
         (vfs_read(a.buffer, a.size, a.count, f) \/ vfs_write(a.buffer, a.size, a.count, f))
           => \A n \in Nodes : nodes'[n].ref_count = nodes[n].ref_count]_vars

\* What holds: on the descriptor of a node that has no target, or no resource,
\* the two calls leave every ref_count as it was.
IoKeepsRefsWithoutTarget ==
    [][\A a \in WriteArgs, f \in Nodes \cup {NULL} :
         ((vfs_read(a.buffer, a.size, a.count, f) \/ vfs_write(a.buffer, a.size, a.count, f))
          /\ (f # NULL => nodes[f].link = NULL \/ nodes[f].resource = NoResource))
           => \A n \in Nodes : nodes'[n].ref_count = nodes[n].ref_count]_vars

(* ---------------------------------------------------------------------- *)
(* vfs_delete_node_recursive: what it leaves alone                        *)
(* ---------------------------------------------------------------------- *)
\* Thread t called vfs_delete_node_recursive without the prune flag.
C38_Case(t) ==
    /\ th[t].op = "rdelete"
    /\ th[t].pre[th[t].arg].alloc
    /\ MASKED_READ(th[t].flags, 0) = 0

\* The nodes that were outside the subtree of the node when the call was made.
OutsideSubtree(t) ==
    {n \in Nodes : /\ th[t].pre[n].alloc
                   /\ n # th[t].arg
                   /\ n \notin Descendants(th[t].pre, th[t].arg)}

\* C38: vfs_delete_node_recursive without the prune flag removes only the node
\* and its descendants: every node outside the subtree, the parent included, is
\* still in the graph when the call returns, with the ref_count it had and with
\* the children it had apart from the node, and the call dereferences no NULL.
C38_SubtreeOnly ==
    \A t \in Threads :
      C38_Case(t) =>
        /\ th[t].pc # "fault"
        /\ th[t].pc = "ret0" =>
             \A n \in OutsideSubtree(t) :
               /\ nodes[n].alloc
               /\ nodes[n].ref_count = th[t].pre[n].ref_count
               /\ ListIn(nodes, nodes[n].children, MaxNodes) \ {th[t].arg}
                    = ListIn(th[t].pre, th[t].pre[n].children, MaxNodes) \ {th[t].arg}

\* What holds: the only node outside the subtree that such a call frees is the
\* parent of the node.
RecursiveFreesSubtreeAndParent ==
    \A t \in Threads :
      (C38_Case(t) /\ th[t].pc = "ret0") =>
        \A n \in OutsideSubtree(t) :
          ~nodes[n].alloc => n = th[t].pre[th[t].arg].parent

(* ---------------------------------------------------------------------- *)
(* Two vfs_mount calls at once (vfs.c)                                    *)
(* ---------------------------------------------------------------------- *)
\* The resource thread t passes to vfs_mount: each caller has its own.
ResourceOf(t) == IF t = 1 THEN "mnt1" ELSE "mnt2"

\* vfs_mount(mountpoint, resource) (vfs.c:259-272) by thread t on the path of
\* node n: the lookup, which gives the caller a reference on the node.
MountCall(t, n) ==
    /\ th[t].pc = "idle"
    /\ ops < MaxRenameOps
    /\ nodes[n].alloc
    /\ ops' = ops + 1
    /\ nodes' = ARC_ATOMIC_INC(nodes, n)
    /\ th' = [th EXCEPT ![t] =
                [IdleThread EXCEPT !.op = "mount", !.node = n, !.pc = "m_check",
                                   !.pre = nodes, !.pre_log = Len(drv_log),
                                   !.seq = ops + 1, !.alone = Alone(t),
                                   !.got = th[t].got]]
    /\ UNCHANGED <<lock, owned, drv_log>>

\* The test of the type (vfs.c:274-279): a node that is no directory is refused
\* with -3, the reference of the lookup stays.
MountCheck(t) ==
    LET r == th[t]
    IN /\ r.pc = "m_check"
       /\ th' = [th EXCEPT ![t] =
                    IF nodes[r.node].type # ARC_VFS_N_DIR
                    THEN [r EXCEPT !.rc = -3, !.pc = "ret0"]
                    ELSE [r EXCEPT !.pc = "m_store"]]
       /\ UNCHANGED <<nodes, lock, owned, drv_log, ops>>

\* The stores (vfs.c:289-294): the resource and the type MOUNT; the function
\* takes no lock between the test and the stores.
MountStore(t) ==
    LET r == th[t]
    IN /\ r.pc = "m_store"
       /\ nodes' = [nodes EXCEPT ![r.node].resource = ResourceOf(t),
                                 ![r.node].type = ARC_VFS_N_MOUNT]
       /\ th' = [th EXCEPT ![t] = [r EXCEPT !.rc = 0, !.pc = "ret0"]]
       /\ UNCHANGED <<lock, owned, drv_log, ops>>

\* Two callers that mount, after directories and files were made.
NextMountRace ==
    \/ vfs_create(Root, RenameDir, DirInfo)
    \/ \E name \in RenameNames : vfs_create(Root, name, FileInfo)
    \/ \E t \in Threads, n \in Nodes : MountCall(t, n)
    \/ \E t \in Threads : MountCheck(t)
    \/ \E t \in Threads : MountStore(t)
    \/ \E t \in Threads : CallReturn(t)

SpecMountRace == Init /\ [][NextMountRace]_vars

\* Threads t and u both have the result of a vfs_mount on node n, which was a
\* directory when the first of the two calls was made.
C39_Case(t, u, n) ==
    /\ t # u
    /\ th[t].op = "mount" /\ th[t].pc = "ret0" /\ th[t].node = n
    /\ th[u].op = "mount" /\ th[u].pc = "ret0" /\ th[u].node = n
    /\ th[t].seq < th[u].seq
    /\ th[t].pre[n].type = ARC_VFS_N_DIR

\* C39: of two vfs_mount calls on the same directory with different resources
\* exactly one returns 0 and the node has the resource of that call; the other
\* returns an error.
C39_OneMountWins ==
    \A t, u \in Threads, n \in Nodes :
      C39_Case(t, u, n) =>
        \E w \in {t, u} :
          /\ th[w].rc = 0
          /\ \A l \in {t, u} \ {w} : th[l].rc # 0
          /\ nodes[n].resource = ResourceOf(w)

\* What holds: a call made on a node that is a mount already returns -3, and a
\* call that returns 0 found a directory when it was made.
MountsInTurn ==
    \A t \in Threads :
      (th[t].op = "mount" /\ th[t].pc = "ret0") =>
        /\ th[t].pre[th[t].node].type = ARC_VFS_N_MOUNT => th[t].rc = -3
        /\ th[t].rc = 0 => th[t].pre[th[t].node].type = ARC_VFS_N_DIR

(* ---------------------------------------------------------------------- *)
(* vfs_seek (vfs.c)                                                       *)
(* ---------------------------------------------------------------------- *)
\* The width of a long here, in bits, and the largest file.
LongBits == 4

MaxSize == 3

MaxSeekOps == 3

SEEK_SET == 0

SEEK_CUR == 1

SEEK_END == 2

\* The arguments of a vfs_seek: every long as offset, and as whence the three
\* values of the switch and one that is none of them.
SeekArgs ==
    [offset : (-(2 ^ (LongBits - 1)))..(2 ^ (LongBits - 1) - 1),
     whence : {SEEK_SET, SEEK_CUR, SEEK_END, 3}]

\* A vfs_seek that moves by SEEK_CUR without the test of the range.
vfs_seek_untested(file, offset, whence) ==
    LET long(x) == ((x + 2 ^ (LongBits - 1)) % (2 ^ LongBits)) - 2 ^ (LongBits - 1)
        size == nodes[file.node].st_size
        cur == long(file.offset + offset)
        end == long(long(size - offset) - 1)
    IN IF whence = SEEK_SET
       THEN (IF 0 <= offset /\ offset < size THEN offset ELSE file.offset)
       ELSE IF whence = SEEK_CUR
       THEN cur
       ELSE IF whence = SEEK_END
       THEN (IF 0 <= end /\ end < size THEN end ELSE file.offset)
       ELSE file.offset

\* vfs_seek(file, offset, whence) (vfs.c:429-471) on a descriptor of a node
\* without link: the offset of the descriptor afterwards.  The sums are made in
\* a long and wrap at its width.
vfs_seek(file, offset, whence) ==
    LET long(x) == ((x + 2 ^ (LongBits - 1)) % (2 ^ LongBits)) - 2 ^ (LongBits - 1)
        size == nodes[file.node].st_size
        cur == long(file.offset + offset)
        end == long(long(size - offset) - 1)
    IN IF whence = SEEK_SET
       THEN (IF 0 <= offset /\ offset < size THEN offset ELSE file.offset)
       ELSE IF whence = SEEK_CUR
       THEN (IF 0 <= cur /\ cur < size THEN cur ELSE file.offset)
       ELSE IF whence = SEEK_END
       THEN (IF 0 <= end /\ end < size THEN end ELSE file.offset)
       ELSE file.offset

\* A regular file "/a" of some size, open, with the offset of the descriptor
\* somewhere in the file; arg holds the descriptor and the arguments of the
\* latest vfs_seek.
InitSeek ==
    /\ \E size \in 1..MaxSize :
         nodes = ARC_ATOMIC_INC(vfs_create_node(init_vfs, Root, <<"a">>,
                                                NodeInfo(ARC_VFS_N_FILE,
                                                         [i \in 1..size |-> "x"]), 2), 2)
    /\ lock = [n \in Nodes |-> NoThread]
    /\ \E o \in 0..(MaxSize - 1) :
         /\ o < nodes[2].st_size
         /\ th = [t \in Threads |->
                    IF t = 1
                    THEN [IdleThread EXCEPT !.arg = [file |-> [node |-> 2, offset |-> o],
                                                     offset |-> 0, whence |-> SEEK_SET]]
                    ELSE IdleThread]
    /\ owned = [t \in Threads |-> [n \in Nodes |-> IF t = 1 /\ n = 2 THEN 1 ELSE 0]]
    /\ drv_log = << >>
    /\ ops = 0

\* One vfs_seek on the descriptor; it returns 0.
SeekCall(a) ==
    /\ ops < MaxSeekOps
    /\ ops' = ops + 1
    /\ th' = [th EXCEPT ![1].op = "seek", ![1].rc = 0,
                        ![1].arg = [file |-> [th[1].arg.file EXCEPT
                                                !.offset = vfs_seek(th[1].arg.file,
                                                                    a.offset, a.whence)],
                                    offset |-> a.offset, whence |-> a.whence]]
    /\ UNCHANGED <<nodes, lock, owned, drv_log>>

SpecSeek == InitSeek /\ [][\E a \in SeekArgs : SeekCall(a)]_vars

\* Where a seek is meant to lead: the offset itself, the offset from the current
\* position, or size - offset - 1.
SeekTarget(file, a) ==
    IF a.whence = SEEK_SET THEN a.offset
    ELSE IF a.whence = SEEK_CUR THEN file.offset + a.offset
    ELSE nodes[file.node].st_size - a.offset - 1

\* C40: every vfs_seek on a descriptor whose offset lies in the file returns 0
\* and leaves the offset in the file: it is the target of the seek if that lies
\* in the file and the old offset if not, whatever the long offset is.
C40_SeekStaysInFile ==
    [][\A a \in SeekArgs :
         SeekCall(a) =>
           LET file == th[1].arg.file
               size == nodes[file.node].st_size
               target == SeekTarget(file, a)
               new == th'[1].arg.file.offset
           IN /\ th'[1].rc = 0
              /\ 0 <= new /\ new < size
              /\ a.whence \in {SEEK_SET, SEEK_CUR, SEEK_END} =>
                   new = (IF 0 <= target /\ target < size THEN target ELSE file.offset)
              /\ a.whence \notin {SEEK_SET, SEEK_CUR, SEEK_END} => new = file.offset]_vars

\* A SEEK_END moved the offset of a descriptor that other seeks had moved before,
\* and a seek to a target outside the file has left an offset.
C40_Witness ==
    /\ th[1].op = "seek"
    /\ ops = MaxSeekOps
    /\ th[1].arg.whence = SEEK_END
    /\ th[1].arg.offset = 1
    /\ th[1].arg.file.offset = nodes[2].st_size - 2

====
